---- MODULE Spec2Model ----
(***************************************************************************)
(* NVIDIA driver manager (src/nvidia_driver_manager.py): the window's      *)
(* install entry points, the installation worker, the backup manager and   *)
(* the version resolver, as state machines.                                *)
(*                                                                         *)
(* Fourteen specifications share the variables below; each one moves only *)
(* its own part of the state and leaves the rest as Init set it:           *)
(*   Spec          requests: entry points, snapshot, worker, completion    *)
(*   SpecBackup    create_backup and its retention                         *)
(*   SpecRestore   create_backup / restore_backup against the host         *)
(*   SpecVersions  fetch_versions over a fetched directory listing         *)
(*   SpecRepo      highest_repo_driver / highest_repo_driver_latest        *)
(*   SpecCommand   run_command: the child process, its input, its result   *)
(*   SpecCleanup   the cleanup functions against the host                  *)
(*   SpecWorker    InstallationThread.run: one strategy, step by step      *)
(*   SpecWorkerLive  SpecWorker with the worker thread running on          *)
(*   SpecBoot      the generated boot-time install script, boot after boot *)
(*   SpecLookup    _fedora_repo_version_for_series from several threads    *)
(*   SpecHistory   append_install_history against the history file         *)
(*   SpecSafety    the nvk-check-reboot unit, boot after boot              *)
(*   SpecWindow    the window's event loop: signals, dialogs, closeEvent   *)
(***************************************************************************)
EXTENDS Integers, Sequences, FiniteSets, TLC

\* ------------------------------------------------------------------ bounds

\* Worker threads created in one run of Spec.
MaxRequests == 2

\* create_backup calls that write a record in one run of SpecBackup: past
\* MAX_BACKUPS, so that the retention acts.
MaxSnapshots == 12

\* Records written, and restore_backup calls, in one run of SpecRestore.
MaxRestoreSnapshots == 2

MaxRestores == 2

\* Series with an entry in the package cache in one run of SpecRepo.
MaxCacheEntries == 3

\* Cleanup sequences run in succession in SpecCleanup.
MaxCleanups == 2

\* Boots of the host, and vendor package requests, in SpecBoot.
MaxBoots == 3

MaxVendorRequests == 2

\* append_install_history calls in SpecHistory.
MaxAppends == 3

\* ------------------------------------------------------------------- state

VARIABLES
    demo_mode,        \* DEMO_MODE (IS_WINDOWS)
    install_thread,   \* window._install_thread: 0 is None, else a thread id
    sudo_password,    \* window._sudo_password: "none" is None
    nthreads,         \* InstallationThread objects created so far
    thread,           \* thread id -> the worker's state
    backup_dir,       \* BACKUP_DIR: file stamp -> the record stored in backup-<stamp>.json
    now,              \* the second (datetime.now()) of the latest record written
    nsnap,            \* create_backup calls that returned a path (history)
    installed,        \* the driver packages installed on the host
    restore,          \* the last restore_backup call (history)
    listing,          \* the directory listing the vendor's server holds
    curl,             \* how run_command(["curl", "-s", url]) ends
    wget,             \* how run_command(["wget", "-s", url]) ends
    versions,         \* what fetch_versions returned
    distro_family,    \* SystemManager.distro_family
    apt_cache,        \* series -> what apt-cache show nvidia-driver-<series>-open prints
    dnf_list,         \* the version dnf list available akmod-nvidia prints (<<>>: none)
    fedora_cache,     \* SystemManager._fedora_repo_version_cache
    repo_driver,      \* what highest_repo_driver returned
    repo_latest,      \* what highest_repo_driver_latest returned
    call,             \* the arguments of the last run_command call
    child,            \* the child process that call launched
    returned,         \* what that call returned
    host,             \* the host's driver artifacts: unit files, configs, modules, libraries
    cleanups,         \* the cleanup sequences run in succession (history)
    run,              \* one InstallationThread.run, step by step
    boot,             \* the host across its boots after a vendor package request
    history,          \* HISTORY_FILE, install_history.json
    lookup,           \* the callers of _fedora_repo_driver_version, each at its position
    safety,           \* nvk-check-reboot.service across the boots of the host
    window            \* the window's event loop: signals queued, dialogs open, handlers run

requestVars == <<install_thread, sudo_password, nthreads, thread,
                 backup_dir, now, nsnap, installed, restore>>

versionVars == <<listing, curl, wget, versions>>

repoVars == <<distro_family, apt_cache, dnf_list, fedora_cache, repo_driver, repo_latest>>

resolverVars == <<versionVars, repoVars>>

commandVars == <<call, child, returned>>

hostVars == <<host, cleanups>>

\* What outlives the process, on disk.
diskVars == <<boot, history>>

\* What the later specifications move.
laterVars == <<lookup, safety, window>>

engineVars == <<commandVars, hostVars, run, diskVars, laterVars>>

vars == <<demo_mode, requestVars, resolverVars, engineVars>>

\* Boots of the host, and NVK installs that register the unit, in SpecSafety.
MaxSafetyBoots == 3

MaxSafetyRequests == 2

\* Install requests made in one run of SpecWindow.
MaxWindowRequests == 2

\* --------------------------------------------------------------- constants

MAX_BACKUPS == 10


\* The driver packages the host may hold (dpkg -l / rpm -qa lines naming nvidia).
Packages == {"nvidia-driver-580-open"}

Min(a, b) == IF a < b THEN a ELSE b


\* ---------------------------------------------------------- backup manager

\* sorted(BACKUP_DIR.glob("backup-*.json")): the file names sort as their stamps.
RECURSIVE Sorted(_)
Sorted(S) ==
    IF S = {} THEN <<>>
    ELSE LET m == CHOOSE x \in S : \A y \in S : x <= y
         IN <<m>> \o Sorted(S \ {m})

\* all_backups[: len(all_backups) - MAX_BACKUPS]: the files create_backup unlinks.
OldBackups(dir) ==
    LET all_backups == Sorted(DOMAIN dir)
    IN IF Len(all_backups) > MAX_BACKUPS
       THEN {all_backups[i] : i \in 1..(Len(all_backups) - MAX_BACKUPS)}
       ELSE {}

\* The record json.dump writes. serial is not in the file: it numbers the
\* successful create_backup calls, to tell which call a surviving file is from.
BackupRecord(stamp, packages, install_type, serial) ==
    [backup_id |-> stamp, packages |-> packages,
     install_about_to |-> install_type, serial |-> serial]

\* open(path, "w") + json.dump: writes backup-<stamp>.json, replacing a file of that name.
WriteBackup(dir, rec) ==
    [s \in (DOMAIN dir) \cup {rec.backup_id} |->
        IF s = rec.backup_id THEN rec ELSE dir[s]]

\* The unlink loop: the old files are removed, except those whose unlink raised
\* OSError (kept).
RemoveOld(dir, kept) ==
    [s \in (DOMAIN dir) \ (OldBackups(dir) \ kept) |-> dir[s]]

\* create_backup, past the DEMO_MODE return. ok = FALSE: an exception was caught
\* before the file was written (None returned, nothing changed). stamp is
\* datetime.now() to the second: the second of the latest record, or a later one
\* (only the order of the stamps matters, so the next integer stands for any
\* later second). Any of the unlinks may raise OSError, which is swallowed.
CreateBackup(install_type, stamp, ok) ==
    IF ok
       THEN LET written == WriteBackup(backup_dir,
                               BackupRecord(stamp, installed, install_type, nsnap + 1))
            IN /\ \E kept \in SUBSET OldBackups(written) :
                     backup_dir' = RemoveOld(written, kept)
               /\ nsnap' = nsnap + 1
               /\ now' = stamp
       ELSE UNCHANGED <<backup_dir, nsnap, now>>

\* ------------------------------------------------------------------ window

\* sudo -n true succeeds (or askpass / the terminal grants it); the Qt dialog's
\* password is accepted; the user declines or the password is refused.
SudoOutcomes == {"cached", "password", "denied"}

\* check_sudo: True unless the user declines or the password is refused.
SudoGranted(o) == o # "denied"

\* check_sudo stores the password typed in the Qt dialog.
SudoPassword(o) == IF o = "password" THEN "pw" ELSE sudo_password

NoThread == [type |-> "none", pc |-> "none", snap |-> "none", cleaned |-> FALSE, code |-> -1]

\* A thread whose finished signal has been handled: the object is dropped.
DoneThread == [type |-> "none", pc |-> "done", snap |-> "none", cleaned |-> FALSE, code |-> -1]

Threads == 1..MaxRequests

\* The worker has been started and has not yet emitted finished.
Running(r) == thread[r].pc \in {"start", "cleanup", "apply"}

\* InstallationThread(self, type, ...); self._install_thread = thread; thread.start()
StartThread(install_type, snap) ==
    /\ nthreads < MaxRequests
    /\ nthreads' = nthreads + 1
    /\ thread' = [thread EXCEPT ![nthreads + 1] =
                    [type |-> install_type, pc |-> "start", snap |-> snap,
                     cleaned |-> FALSE, code |-> -1]]
    /\ install_thread' = nthreads + 1

\* The request ends in the entry point: no thread, no snapshot.
Abandon == UNCHANGED <<install_thread, nthreads, thread, backup_dir, now, nsnap>>

\* The entry point with the create_backup call left out.
StartWithoutBackup(install_type) ==
    /\ UNCHANGED <<backup_dir, now, nsnap>>
    /\ StartThread(install_type, "none")

\* create_backup(...) followed by the thread's construction and start, as
\* install_nvk, install_repo, install_repo_latest and install_nvidia_run do.
BackupThenStart(install_type) ==
    \E stamp \in {now, now + 1}, ok \in BOOLEAN :
        /\ CreateBackup(install_type, stamp, ok)
        /\ StartThread(install_type, IF ok THEN "written" ELSE "failed")

\* check_sudo's effect on the window: the password is kept only when sudo is granted.
CheckSudo(o) ==
    sudo_password' = (IF SudoGranted(o) THEN SudoPassword(o) ELSE sudo_password)

\* go_on: the user's answers to install_nvk's two warnings (a kernel older than 6,
\* issues reported by check_requirements("nvk")); FALSE when one is answered No.
install_nvk ==
    /\ UNCHANGED <<resolverVars, engineVars, demo_mode, installed, restore>>
    /\ \/ demo_mode /\ Abandon /\ UNCHANGED sudo_password
       \/ /\ ~demo_mode
          /\ \E o \in SudoOutcomes, go_on \in BOOLEAN :
               /\ CheckSudo(o)
               /\ IF ~SudoGranted(o) \/ ~go_on
                  THEN Abandon
                  ELSE BackupThenStart("nvk")

install_repo ==
    /\ UNCHANGED <<resolverVars, engineVars, demo_mode, installed, restore>>
    /\ \/ demo_mode /\ Abandon /\ UNCHANGED sudo_password
       \/ /\ ~demo_mode
          /\ \E o \in SudoOutcomes :
               /\ CheckSudo(o)
               /\ IF ~SudoGranted(o) THEN Abandon ELSE BackupThenStart("repo")

install_repo_latest ==
    /\ UNCHANGED <<resolverVars, engineVars, demo_mode, installed, restore>>
    /\ \/ demo_mode /\ Abandon /\ UNCHANGED sudo_password
       \/ /\ ~demo_mode
          /\ \E o \in SudoOutcomes :
               /\ CheckSudo(o)
               /\ IF ~SudoGranted(o) THEN Abandon ELSE BackupThenStart("repo")

install_nvidia_run ==
    /\ UNCHANGED <<resolverVars, engineVars, demo_mode, installed, restore>>
    /\ \/ demo_mode /\ Abandon /\ UNCHANGED sudo_password
       \/ /\ ~demo_mode
          /\ \E o \in SudoOutcomes :
               /\ CheckSudo(o)
               /\ IF ~SudoGranted(o) THEN Abandon ELSE BackupThenStart("run")

uninstall_nvidia_only ==
    /\ UNCHANGED <<resolverVars, engineVars, demo_mode, installed, restore, backup_dir, now, nsnap>>
    /\ \/ demo_mode /\ Abandon /\ UNCHANGED sudo_password
       \/ /\ ~demo_mode
          /\ \E o \in SudoOutcomes, confirm \in BOOLEAN :
               /\ CheckSudo(o)
               /\ IF ~SudoGranted(o) \/ ~confirm
                  THEN Abandon
                  ELSE StartThread("uninstall", "none")

\* get_installed_nvidia_driver_package() names no package: the entry point returns
\* before check_sudo.
upgrade_repo_driver ==
    /\ UNCHANGED <<resolverVars, engineVars, demo_mode, installed, restore, backup_dir, now, nsnap>>
    /\ \/ (demo_mode \/ installed = {}) /\ Abandon /\ UNCHANGED sudo_password
       \/ /\ ~demo_mode /\ installed # {}
          /\ \E o \in SudoOutcomes :
               /\ CheckSudo(o)
               /\ IF ~SudoGranted(o) THEN Abandon ELSE StartThread("upgrade_repo", "none")

\* A finished handler that leaves the password where it is.
OnFinishedKeepsPassword(r) ==
    /\ thread[r].pc = "emitted"
    /\ thread' = [thread EXCEPT ![r] = [DoneThread EXCEPT !.code = thread[r].code]]
    /\ install_thread' = 0
    /\ UNCHANGED <<resolverVars, engineVars, demo_mode, nthreads,
                   backup_dir, now, nsnap, installed, restore, sudo_password>>

\* The finished handlers (_on_nvk_finished, _on_repo_finished, ..., _on_finished),
\* run by the window's event loop once the worker's finished signal is delivered:
\* the thread object is dropped, the code it finished with is the handler's argument.
OnFinished(r) ==
    /\ thread[r].pc = "emitted"
    /\ thread' = [thread EXCEPT ![r] = [DoneThread EXCEPT !.code = thread[r].code]]
    /\ install_thread' = 0
    /\ sudo_password' = "none"
    /\ UNCHANGED <<resolverVars, engineVars, demo_mode, nthreads, backup_dir, now, nsnap,
                   installed, restore>>

\* ------------------------------------------------------------------ worker

\* self.finished.emit(code)
Emit(r, code) == thread' = [thread EXCEPT ![r].pc = "emitted", ![r].code = code]

Goto(r, pc) == thread' = [thread EXCEPT ![r].pc = pc]

WorkerFrame == UNCHANGED <<resolverVars, engineVars, demo_mode, install_thread,
                           sudo_password, nthreads, backup_dir, now, nsnap, restore>>

\* InstallationThread.run up to the cleanup. For repo and run:
\* _ensure_dependencies, then in the strategy _ensure_build_requirements (and for
\* run the download of the installer); a failure of one of them ends the run
\* with finished(1). upgrade_repo has no cleanup.
WorkerStart(r) ==
    /\ thread[r].pc = "start"
    /\ WorkerFrame /\ UNCHANGED installed
    /\ CASE thread[r].type \in {"repo", "run"} ->
              \E prerequisites_ok \in BOOLEAN :
                  IF prerequisites_ok THEN Goto(r, "cleanup") ELSE Emit(r, 1)
         [] thread[r].type \in {"nvk", "uninstall"} -> Goto(r, "cleanup")
         [] OTHER -> Goto(r, "apply")

\* clean_nvidia_artifacts, purge_nvidia_packages, remove_dkms_modules (and, for
\* nvk and uninstall, remove_nvidia_configs and remove_nvidia_libraries). The
\* purge removes the packages unless the package manager fails.
WorkerCleanup(r) ==
    /\ thread[r].pc = "cleanup"
    /\ WorkerFrame
    /\ thread' = [thread EXCEPT ![r].pc = "apply", ![r].cleaned = TRUE]
    /\ \E purged \in BOOLEAN : installed' = (IF purged THEN {} ELSE installed)

\* The rest of the strategy, up to finished.emit.
WorkerApply(r) ==
    /\ thread[r].pc = "apply"
    /\ WorkerFrame
    /\ CASE thread[r].type = "nvk" ->
              /\ UNCHANGED installed
              /\ \E nvk_packages_ok \in BOOLEAN :
                    Emit(r, IF nvk_packages_ok THEN 0 ELSE 1)
         [] thread[r].type = "repo" ->
              \E rc_ok \in BOOLEAN :
                  /\ installed' = (IF rc_ok THEN Packages ELSE installed)
                  /\ Emit(r, IF rc_ok THEN 0 ELSE 1)
         [] thread[r].type = "upgrade_repo" ->
              /\ UNCHANGED installed
              /\ IF installed = {}
                 THEN Emit(r, 0)
                 ELSE \E rc_ok \in BOOLEAN : Emit(r, IF rc_ok THEN 0 ELSE 1)
         [] OTHER -> UNCHANGED installed /\ Emit(r, 0)

\* ----------------------------------------------------------- specification

NoRestore == [calls |-> 0, result |-> "none", packages |-> {}, ran |-> FALSE,
              tool |-> "none", rc |-> -1]

EmptyDir == [s \in {} |-> BackupRecord(0, {}, "none", 0)]

\* Nothing fetched, nothing asked of the package cache.
NoVersions ==
    [production |-> [maj |-> <<>>, min |-> <<>>, pat |-> <<>>],
     new_feature |-> [maj |-> <<>>, min |-> <<>>, pat |-> <<>>],
     beta |-> [maj |-> <<>>, min |-> <<>>, pat |-> <<>>],
     legacy |-> [maj |-> <<>>, min |-> <<>>, pat |-> <<>>]]

\* _fedora_repo_version_cache = None
NoCache == [set |-> FALSE, ver |-> <<>>]

Series == <<610, 600, 590, 580, 550, 535, 525, 515>>

ResolverRest ==
    /\ listing = <<>>
    /\ curl = "fail"
    /\ wget = "fail"
    /\ versions = NoVersions
    /\ apt_cache = [i \in 1..Len(Series) |-> "absent"]
    /\ dnf_list = <<>>
    /\ fedora_cache = NoCache
    /\ repo_driver = <<>>
    /\ repo_latest = <<>>

ResolverIdle == distro_family = "ubuntu" /\ ResolverRest

\* No run_command call yet.
NoOutcome == [kind |-> "none", rc |-> 0, out |-> "", err |-> ""]

NoCall == [sudo |-> FALSE, sudo_password |-> "none", outcome |-> NoOutcome]

NoChild == [launched |-> 0, argv |-> "none", input |-> "none"]

NoResult == [rc |-> -1, out |-> "", err |-> ""]

\* A host with no driver artifact, whose package manager and dkms work.
CleanHost ==
    [units |-> {}, enabled |-> {}, configs |-> {}, dkms |-> {}, libs |-> {},
     pm_ok |-> TRUE, dkms_ok |-> TRUE]

NoCleanups == [runs |-> 0]

\* No InstallationThread yet.
NoRun ==
    [type |-> "none", pc |-> 0, log |-> <<>>, warn |-> <<>>, restart_needed |-> FALSE,
     asked |-> <<>>, finished |-> <<>>, raised |-> FALSE, report |-> <<>>,
     progress |-> <<>>]

\* No vendor package request is waiting for a boot.
NoBoot ==
    [requests |-> 0, enabled |-> FALSE, archive |-> FALSE, pc |-> 0, boots |-> 0, execs |-> 0,
     exits |-> <<>>, registered |-> FALSE, module |-> FALSE, verified |-> FALSE,
     blacklist |-> FALSE, initramfs |-> FALSE, rebooted |-> FALSE]

\* No install_history.json yet, no call of append_install_history.
NoFile == [kind |-> "absent", entries |-> <<>>]

NoHistory == [file |-> NoFile, before |-> NoFile, calls |-> 0]

\* The three callers of _fedora_repo_driver_version: FetchFedoraRepoThread in
\* the background, highest_repo_driver and highest_repo_driver_latest on the
\* window's thread.
Callers == {"thread", "repo", "latest"}

NoCaller == [pc |-> "idle", ver |-> <<>>, returned |-> <<>>]

NoLookup == [callers |-> [c \in Callers |-> NoCaller], queries |-> 0]

\* nvk-check-reboot.service was never written.
NoSafety ==
    [registrations |-> 0, unit |-> FALSE, enabled |-> FALSE, driver |-> FALSE, boots |-> 0,
     pc |-> "off", loaded |-> FALSE, execs |-> 0, forced |-> 0]

\* A worker the window has not created.
NoWorker == [type |-> "none", state |-> "none", captured |-> "none", code |-> -1]

\* closeEvent has not been called.
NoClose == [called |-> FALSE, running |-> FALSE, asked |-> FALSE, confirm |-> FALSE,
            accepted |-> FALSE]

\* A window with no request made.
NoWindow ==
    [requests |-> 0, password |-> "none", install_thread |-> 0,
     threads |-> [r \in 1..MaxWindowRequests |-> NoWorker],
     queue |-> <<>>, dialogs |-> <<>>, reboots |-> <<>>, appended |-> <<>>,
     success |-> {}, close |-> NoClose, closed |-> FALSE]

EngineIdle ==
    /\ call = NoCall
    /\ child = NoChild
    /\ returned = NoResult
    /\ host = CleanHost
    /\ cleanups = NoCleanups
    /\ run = NoRun
    /\ boot = NoBoot
    /\ history = NoHistory
    /\ lookup = NoLookup
    /\ safety = NoSafety
    /\ window = NoWindow

RequestsIdle ==
    /\ install_thread = 0
    /\ sudo_password = "none"
    /\ nthreads = 0
    /\ thread = [r \in Threads |-> NoThread]
    /\ backup_dir = EmptyDir
    /\ now = 0
    /\ nsnap = 0
    /\ restore = NoRestore

Init ==
    /\ demo_mode \in BOOLEAN
    /\ RequestsIdle
    /\ installed \in SUBSET Packages
    /\ ResolverIdle
    /\ EngineIdle

Next ==
    \/ install_nvk
    \/ install_repo
    \/ install_repo_latest
    \/ install_nvidia_run
    \/ uninstall_nvidia_only
    \/ upgrade_repo_driver
    \/ \E r \in Threads : WorkerStart(r)
    \/ \E r \in Threads : WorkerCleanup(r)
    \/ \E r \in Threads : WorkerApply(r)
    \/ \E r \in Threads : OnFinished(r)

Spec == Init /\ [][Next]_vars

\* ------------------------------------------------- SpecBackup: the retention

WindowFrame == UNCHANGED <<install_thread, nthreads, thread>>

\* create_backup(install_type, ...), called as the entry points call it; at most
\* limit records are written, within the clock's first limit seconds.
Snapshot(types, limit) ==
    /\ nsnap < limit
    /\ WindowFrame
    /\ UNCHANGED <<resolverVars, engineVars, demo_mode, sudo_password, installed, restore>>
    /\ IF demo_mode
       THEN UNCHANGED <<backup_dir, now, nsnap>>
       ELSE \E install_type \in types, stamp \in {now, now + 1}, ok \in BOOLEAN :
               stamp <= limit /\ CreateBackup(install_type, stamp, ok)

BackupSnapshot == Snapshot({"repo"}, MaxSnapshots)

InitBackup == Init

NextBackup == BackupSnapshot

SpecBackup == InitBackup /\ [][NextBackup]_vars

\* --------------------------------------- SpecRestore: restore against the host

\* _run_install_restore: apt-get install -y <packages> through run_command;
\* nothing is run for an empty list, and (0, "") is returned.
RunInstallRestore(packages, rc) ==
    IF packages = {}
    THEN [rc |-> 0, ran |-> FALSE, tool |-> "none", installed |-> installed]
    ELSE [rc |-> rc, ran |-> TRUE, tool |-> "apt-get",
          installed |-> IF rc = 0 THEN installed \cup packages ELSE installed]

\* restore_backup with the "if not packages" return left out.
RestoreOutcomeUnguarded(data, rc) ==
    LET r == RunInstallRestore(data.packages, rc)
    IN [result |-> IF r.rc = 0 THEN "true" ELSE "false",
        ran |-> r.ran, tool |-> r.tool, rc |-> r.rc, installed |-> r.installed]

\* restore_backup's body after check_sudo, for the record data read from the file.
RestoreOutcome(data, rc) ==
    IF data.packages = {}
    THEN [result |-> "false", ran |-> FALSE, tool |-> "none", rc |-> -1,
          installed |-> installed]
    ELSE LET r == RunInstallRestore(data.packages, rc)
         IN [result |-> IF r.rc = 0 THEN "true" ELSE "false",
             ran |-> r.ran, tool |-> r.tool, rc |-> r.rc, installed |-> r.installed]

\* restore_backup(backup_path), for a file the backup dialog lists.
restore_backup ==
    /\ restore.calls < MaxRestores
    /\ WindowFrame /\ UNCHANGED <<resolverVars, engineVars, demo_mode, backup_dir, now, nsnap>>
    /\ \E path \in DOMAIN backup_dir, o \in SudoOutcomes, rc \in {0, 1, 124} :
          /\ CheckSudo(o)
          /\ IF ~SudoGranted(o)
             THEN /\ restore' = [calls |-> restore.calls + 1, result |-> "false",
                                 packages |-> backup_dir[path].packages, ran |-> FALSE,
                                 tool |-> "none", rc |-> -1]
                  /\ UNCHANGED installed
             ELSE LET out == RestoreOutcome(backup_dir[path], rc)
                  IN /\ restore' = [calls |-> restore.calls + 1, result |-> out.result,
                                    packages |-> backup_dir[path].packages, ran |-> out.ran,
                                    tool |-> out.tool, rc |-> out.rc]
                     /\ installed' = out.installed

RestoreSnapshot == Snapshot({"repo", "run"}, MaxRestoreSnapshots)

HostFrame == UNCHANGED <<resolverVars, engineVars, demo_mode, install_thread,
                         sudo_password, nthreads, thread, backup_dir, now, nsnap, restore>>

\* purge_nvidia_packages, as a worker runs it: the installed driver packages go.
HostPurge == installed # {} /\ installed' = {} /\ HostFrame

\* install_repo's package installation returning 0.
HostInstall == installed # Packages /\ installed' = Packages /\ HostFrame

\* A debian-like or a fedora-like host: get_installed_nvidia_packages fills the
\* snapshot from dpkg -l or from rpm -qa, restore_backup runs on either.
InitRestore ==
    /\ demo_mode \in BOOLEAN
    /\ RequestsIdle
    /\ installed \in SUBSET Packages
    /\ distro_family \in {"ubuntu", "fedora"}
    /\ ResolverRest
    /\ EngineIdle

NextRestore ==
    \/ RestoreSnapshot
    \/ restore_backup
    \/ HostPurge
    \/ HostInstall

SpecRestore == InitRestore /\ [][NextRestore]_vars

\* ------------------------------------------------- fetch_versions

\* A version as the listing spells it: three runs of decimal digits.
V(maj, min, pat) == [maj |-> maj, min |-> min, pat |-> pat]

\* The empty string.
EmptyVersion == V(<<>>, <<>>, <<>>)

PRODUCTION_VERSION == V(<<5, 8, 0>>, <<1, 2, 6>>, <<0, 9>>)

NEW_FEATURE_VERSION == V(<<5, 9, 0>>, <<4, 8>>, <<0, 1>>)

BETA_VERSION == V(<<5, 7, 5>>, <<5, 4>>, <<1, 4>>)

LEGACY_VERSION == V(<<4, 7, 0>>, <<2, 5, 6>>, <<0, 2>>)

SeriesNames == {"production", "new_feature", "beta", "legacy"}

\* The versions dict fetch_versions starts from.
Fallback ==
    [production |-> PRODUCTION_VERSION, new_feature |-> NEW_FEATURE_VERSION,
     beta |-> BETA_VERSION, legacy |-> LEGACY_VERSION]

\* The directories the server may list, in the order it lists them.
Pool ==
    << V(<<5, 8, 0>>, <<1, 0>>, <<0>>),
       V(<<5, 8, 0>>, <<9, 5>>, <<2>>),
       V(<<5, 8, 0>>, <<9, 5>>, <<0, 2>>),
       V(<<5, 8, 0>>, <<1, 2, 6>>, <<0, 9>>),
       V(<<1, 5, 8, 0>>, <<2, 0, 0>>, <<0>>),
       V(<<5, 7, 5>>, <<5, 4>>, <<1, 4>>),
       V(<<5, 9, 0>>, <<5>>, <<1>>),
       V(<<5, 9, 0>>, <<4, 4>>, <<9>>),
       V(<<5, 9, 0>>, <<4, 8>>, <<0, 1>>),
       V(<<5, 9, 0>>, <<5, 0>>, <<1>>),
       V(<<4, 7, 0>>, <<1, 0>>, <<0>>),
       V(<<4, 7, 0>>, <<2, 5, 6>>, <<0, 2>>) >>

PoolListing(S) == LET idx == Sorted(S) IN [i \in 1..Len(idx) |-> Pool[idx[i]]]

ToolOutcomes == {"ok", "empty", "fail", "timeout"}

\* run_command([tool, "-s", url], timeout=10): the return code, and whether
\* stdout is non-empty. It never raises: a timeout is code 124, any other
\* exception code 1.
RunTool(outcome) ==
    CASE outcome = "ok" -> [rc |-> 0, out |-> TRUE]
      [] outcome = "empty" -> [rc |-> 0, out |-> FALSE]
      [] outcome = "timeout" -> [rc |-> 124, out |-> FALSE]
      [] OTHER -> [rc |-> 1, out |-> FALSE]

\* The last three digits of the major: the patterns are not anchored on the left.
Last3(ds) == SubSeq(ds, Len(ds) - 2, Len(ds))

MajorMatches(series, maj) ==
    /\ Len(maj) >= 3
    /\ CASE series = "production" -> Last3(maj)[1] = 5 /\ Last3(maj)[2] = 8
         [] series = "legacy" -> Last3(maj) = <<4, 7, 0>>
         [] OTHER -> Last3(maj) = <<5, 9, 0>>

\* (?:[0-3][0-9]|4[0-4])
BetaMinor(min) == Len(min) = 2 /\ (min[1] <= 3 \/ (min[1] = 4 /\ min[2] <= 4))

\* (?:4[5-9]|[5-9][0-9]|[0-9]{3,})
NewFeatureMinor(min) ==
    \/ Len(min) = 2 /\ ((min[1] = 4 /\ min[2] >= 5) \/ min[1] >= 5)
    \/ Len(min) >= 3

MinorMatches(series, min) ==
    CASE series = "new_feature" -> NewFeatureMinor(min)
      [] series = "beta" -> BetaMinor(min)
      [] OTHER -> Len(min) >= 1

Matches(series, e) ==
    /\ MajorMatches(series, e.maj)
    /\ MinorMatches(series, e.min)
    /\ Len(e.pat) >= 1

\* re.findall(pattern, content), each match without its trailing slash.
FindAll(series, content) ==
    LET hits == SelectSeq(content, LAMBDA e : Matches(series, e))
    IN [i \in 1..Len(hits) |-> V(Last3(hits[i].maj), hits[i].min, hits[i].pat)]

\* int(i) of a run of digits.
RECURSIVE IntOf(_)
IntOf(ds) ==
    IF ds = <<>> THEN 0
    ELSE 10 * IntOf(SubSeq(ds, 1, Len(ds) - 1)) + ds[Len(ds)]

\* The text of a version as a sort key: its characters, the dot below any digit.
SortKeyText(x) == x.maj \o <<-1>> \o x.min \o <<-1>> \o x.pat

\* key=lambda x: [int(i) for i in x.rstrip("/").split(".")]
SortKey(x) == <<IntOf(x.maj), IntOf(x.min), IntOf(x.pat)>>

\* a < b on lists of integers.
RECURSIVE ListLess(_, _)
ListLess(a, b) ==
    IF a = <<>> THEN b # <<>>
    ELSE IF b = <<>> THEN FALSE
    ELSE IF a[1] # b[1] THEN a[1] < b[1]
    ELSE ListLess(Tail(a), Tail(b))

\* sorted(matches, key=...): stable, equal keys keep the order of the listing.
RECURSIVE SortedByKey(_)
SortedByKey(m) ==
    IF m = <<>> THEN <<>>
    ELSE LET rest == SortedByKey(SubSeq(m, 1, Len(m) - 1))
             x == m[Len(m)]
             k == Cardinality({i \in 1..Len(rest) :
                                  ~ListLess(SortKey(x), SortKey(rest[i]))})
         IN SubSeq(rest, 1, k) \o <<x>> \o SubSeq(rest, k + 1, Len(rest))

\* A series that keeps no fallback when nothing matches.
SeriesVersionOrEmpty(series, content, fallback) ==
    LET m == FindAll(series, content)
    IN IF m # <<>> THEN SortedByKey(m)[Len(m)] ELSE EmptyVersion

\* if match: versions[series] = sorted(match, key=...)[-1].rstrip("/")
SeriesVersion(series, content, fallback) ==
    LET m == FindAll(series, content)
    IN IF m # <<>> THEN SortedByKey(m)[Len(m)] ELSE fallback

ParseVersions(content, fallback) ==
    [production |-> SeriesVersion("production", content, fallback.production),
     new_feature |-> SeriesVersion("new_feature", content, fallback.new_feature),
     beta |-> SeriesVersion("beta", content, fallback.beta),
     legacy |-> SeriesVersion("legacy", content, fallback.legacy)]

\* for tool in ["curl", "wget"]: the first result with code 0 and output is
\* parsed, and the loop ends.
RECURSIVE FetchLoop(_, _, _)
FetchLoop(results, content, fallback) ==
    IF results = <<>> THEN fallback
    ELSE IF results[1].rc = 0 /\ results[1].out THEN ParseVersions(content, fallback)
    ELSE FetchLoop(Tail(results), content, fallback)

fetch_versions ==
    /\ versions = NoVersions
    /\ versions' = IF demo_mode THEN Fallback
                   ELSE FetchLoop(<<RunTool(curl), RunTool(wget)>>, listing, Fallback)
    /\ UNCHANGED <<demo_mode, requestVars, listing, curl, wget, repoVars, engineVars>>

InitVersions ==
    /\ demo_mode \in BOOLEAN
    /\ RequestsIdle
    /\ installed = {}
    /\ listing \in {PoolListing(S) : S \in SUBSET (1..Len(Pool))}
    /\ curl \in ToolOutcomes
    /\ wget \in ToolOutcomes
    /\ versions = NoVersions
    /\ distro_family = "ubuntu"
    /\ apt_cache = [i \in 1..Len(Series) |-> "absent"]
    /\ dnf_list = <<>>
    /\ fedora_cache = NoCache
    /\ repo_driver = <<>>
    /\ repo_latest = <<>>
    /\ EngineIdle

NextVersions == fetch_versions

SpecVersions == InitVersions /\ [][NextVersions]_vars

\* ------------------------------ highest_repo_driver(_latest)

CacheEntries == {"absent", "virtual", "plain", "epoch"}

\* The upstream version the cache holds for a series, as its dot-separated numbers.
CacheVersion(i) == <<Series[i], 95, 5>>

\* run_command(["apt-cache", "show", "nvidia-driver-<v>-open"]): the return
\* code and the first line that starts with "Version:", as the fields its
\* colons separate after the label, each as the parts its hyphens separate.
\*   plain   Version: <v>.95.5-0ubuntu1
\*   epoch   Version: 1:<v>.95.5-0ubuntu1
\*   virtual code 0 and no Version line
AptCacheShow(i) ==
    CASE apt_cache[i] = "plain" ->
             [rc |-> 0, version_line |-> << <<CacheVersion(i), <<0>>>> >>]
      [] apt_cache[i] = "epoch" ->
             [rc |-> 0, version_line |-> << << <<1>> >>, <<CacheVersion(i), <<0>>>> >>]
      [] apt_cache[i] = "virtual" -> [rc |-> 0, version_line |-> <<>>]
      [] OTHER -> [rc |-> 100, version_line |-> <<>>]

\* line.split(":")[1].strip().split("-")[0]
ParseVersionLine(line) == line[1][1]

\* "." in version
HasDot(version) == Len(version) >= 2

\* The (v, version) pairs the loop over the series collects, from series i on.
RECURSIVE Available(_)
Available(i) ==
    IF i > Len(Series) THEN <<>>
    ELSE LET result == AptCacheShow(i)
         IN IF result.rc = 0 /\ result.version_line # <<>>
               THEN <<[v |-> Series[i], version |-> ParseVersionLine(result.version_line)]>>
                    \o Available(i + 1)
               ELSE Available(i + 1)

\* version if "." in version else str(v)
Shown(a) == IF HasDot(a.version) THEN a.version ELSE <<a.v>>

\* _fedora_repo_driver_version: the cached answer, or the one dnf gives.
FedoraRepoDriverVersion ==
    IF fedora_cache.set THEN fedora_cache.ver
    ELSE IF HasDot(dnf_list) THEN dnf_list ELSE <<>>

FedoraBranch(result) ==
    LET ver == FedoraRepoDriverVersion
    IN /\ fedora_cache' = [set |-> TRUE, ver |-> ver]
       /\ result = IF ver # <<>> THEN ver ELSE <<580>>

\* The pick of highest_repo_driver_latest: the first pair.
FirstAvailable(available) ==
    IF Len(available) >= 1 THEN Shown(available[1]) ELSE <<580>>

\* A pick that never looks past the first pair.
SecondAvailableIsFirst(available) ==
    IF Len(available) >= 1 THEN Shown(available[1]) ELSE <<580>>

\* The pick of highest_repo_driver: the second pair, else the only one.
SecondAvailable(available) ==
    IF Len(available) >= 2 THEN Shown(available[2])
    ELSE IF Len(available) = 1 THEN Shown(available[1])
    ELSE <<580>>

highest_repo_driver ==
    /\ repo_driver = <<>>
    /\ IF demo_mode
          THEN repo_driver' = <<580, 126, 9>> /\ UNCHANGED fedora_cache
          ELSE IF distro_family = "fedora"
          THEN FedoraBranch(repo_driver')
          ELSE repo_driver' = SecondAvailable(Available(1)) /\ UNCHANGED fedora_cache
    /\ UNCHANGED <<demo_mode, requestVars, versionVars, engineVars,
                   distro_family, apt_cache, dnf_list, repo_latest>>

highest_repo_driver_latest ==
    /\ repo_latest = <<>>
    /\ IF demo_mode
          THEN repo_latest' = <<590, 48, 1>> /\ UNCHANGED fedora_cache
          ELSE IF distro_family = "fedora"
          THEN FedoraBranch(repo_latest')
          ELSE repo_latest' = FirstAvailable(Available(1)) /\ UNCHANGED fedora_cache
    /\ UNCHANGED <<demo_mode, requestVars, versionVars, engineVars,
                   distro_family, apt_cache, dnf_list, repo_driver>>

InitRepo ==
    /\ demo_mode \in BOOLEAN
    /\ RequestsIdle
    /\ installed = {}
    /\ listing = <<>>
    /\ curl = "fail"
    /\ wget = "fail"
    /\ versions = NoVersions
    /\ distro_family \in {"ubuntu", "fedora"}
    /\ apt_cache \in [1..Len(Series) -> CacheEntries]
    /\ Cardinality({i \in 1..Len(Series) : apt_cache[i] # "absent"}) <= MaxCacheEntries
    /\ distro_family = "fedora" => \A i \in 1..Len(Series) : apt_cache[i] = "absent"
    /\ dnf_list \in {<<>>, <<570>>, <<570, 144>>}
    /\ distro_family = "ubuntu" => dnf_list = <<>>
    /\ fedora_cache = NoCache
    /\ repo_driver = <<>>
    /\ repo_latest = <<>>
    /\ EngineIdle

NextRepo ==
    \/ highest_repo_driver
    \/ highest_repo_driver_latest

SpecRepo == InitRepo /\ [][NextRepo]_vars

\* ---------------------------------------------------- run_command

\* How subprocess.run ends: the process exits, the timeout expires, or the
\* launch raises (the program is missing, ...).
CommandOutcomes ==
    [kind : {"exit"}, rc : {0, 1, 2, 124}, out : {"", "stdout"}, err : {"", "stderr"}]
    \cup {[kind |-> "timeout", rc |-> 0, out |-> "", err |-> ""],
          [kind |-> "raise", rc |-> 0, out |-> "", err |-> "No such file or directory"]}

\* The sudo_password argument: None, the empty string, a password.
PasswordArgs == {"none", "", "pw"}

\* cmd = ["sudo", "-S"] + cmd, ["sudo"] + cmd, or cmd as it came.
CommandArgv(sudo, password) ==
    IF sudo THEN (IF password # "none" THEN "sudo -S" ELSE "sudo") ELSE "plain"

\* An input that follows the password wherever one is given.
CommandInputUnguarded(sudo, password) == password

\* kwargs["input"] = sudo_password + "\n", only if sudo and sudo_password is not None.
CommandInput(sudo, password) ==
    IF sudo /\ password # "none" THEN password ELSE "none"

\* A timeout caught by the general handler.
CommandResultNoSentinel(o) ==
    CASE o.kind = "exit" -> [rc |-> o.rc, out |-> o.out, err |-> o.err]
      [] OTHER -> [rc |-> 1, out |-> "", err |-> o.err]

\* return (process.returncode, process.stdout or "", process.stderr or "");
\* except subprocess.TimeoutExpired: (124, "", "Timeout");
\* except Exception as e: (1, "", str(e))
CommandResult(o) ==
    CASE o.kind = "exit" -> [rc |-> o.rc, out |-> o.out, err |-> o.err]
      [] o.kind = "timeout" -> [rc |-> 124, out |-> "", err |-> "Timeout"]
      [] OTHER -> [rc |-> 1, out |-> "", err |-> o.err]

\* One call. In demo mode nothing is launched and (0, "Komenda: ...", "") returns.
run_command ==
    /\ \E sudo \in BOOLEAN, pw \in PasswordArgs, o \in CommandOutcomes :
          /\ call' = [sudo |-> sudo, sudo_password |-> pw, outcome |-> o]
          /\ IF demo_mode
                THEN /\ child' = NoChild
                     /\ returned' = [rc |-> 0, out |-> "Komenda", err |-> ""]
                ELSE /\ child' = [launched |-> 1, argv |-> CommandArgv(sudo, pw),
                                  input |-> CommandInput(sudo, pw)]
                     /\ returned' = CommandResult(o)
    /\ UNCHANGED <<demo_mode, requestVars, resolverVars, hostVars, run, diskVars, laterVars>>

InitCommand == Init

NextCommand == run_command

SpecCommand == InitCommand /\ [][NextCommand]_vars

\* -------------------------------------------------------- cleanup

\* Unit files under /etc/systemd/system: one shipped for the vendor's daemon,
\* the two one-shot units this program writes.
Units == {"nvidia-persistenced", "nvidia-run-install", "nvk-check-reboot"}

\* services, in clean_nvidia_artifacts.
CleanupServices ==
    {"nvidia-persistenced", "nvidia-powerd", "nvidia-suspend", "nvidia-resume",
     "nvidia-hibernate", "nvidia-driver-install", "nvidia-run-install", "nvk-install"}

\* Configuration files, by the way the cleanup names them: a literal path
\* (rm -f <path>), a glob inside sh -c (the shell expands it), a glob given
\* to rm as an argument (no shell: rm looks for a file of that very name).
Configs ==
    {"/etc/modprobe.d/blacklist-nouveau.conf",
     "/etc/X11/xorg.conf.d/10-nvidia.conf",
     "/etc/modprobe.d/nvidia-drm.conf"}

ConfigsRemoved ==
    {"/etc/modprobe.d/blacklist-nouveau.conf", "/etc/X11/xorg.conf.d/10-nvidia.conf"}

\* Libraries: a file the sh -c globs of paths_f reach, a directory only the
\* argument globs of paths_rf name.
Libs == {"/usr/lib/x86_64-linux-gnu/libnvidia-glcore.so", "/usr/lib/nvidia"}

LibsRemoved == {"/usr/lib/x86_64-linux-gnu/libnvidia-glcore.so"}

\* Kernel modules: an entry of the DKMS tree, a module file the .run installer
\* put under /lib/modules.
DkmsModules == {"nvidia/580", "nvidia.ko"}

\* The part of the host the cleanup works on.
HostState(h, pkgs) == [host |-> h, installed |-> pkgs]

\* A service loop that deletes the unit file only of a unit it found disabled.
CleanNvidiaArtifactsTwoPass(st) ==
    [st EXCEPT !.host.units = @ \ (CleanupServices \ st.host.enabled),
               !.host.enabled = @ \ CleanupServices,
               !.host.configs = @ \ ConfigsRemoved]

\* clean_nvidia_artifacts: the configs, then for each service stop, disable
\* and rm -f of its unit file; daemon-reload; ldconfig.
CleanNvidiaArtifacts(st) ==
    [st EXCEPT !.host.units = @ \ CleanupServices,
               !.host.enabled = @ \ CleanupServices,
               !.host.configs = @ \ ConfigsRemoved]

\* purge_nvidia_packages: the installed nvidia packages are removed when there
\* are any and the package manager succeeds.
PurgeNvidiaPackages(st) ==
    IF st.installed # {} /\ st.host.pm_ok THEN [st EXCEPT !.installed = {}] ELSE st

\* remove_dkms_modules. Fedora: find -delete of the module files. Otherwise:
\* dkms remove of each nvidia entry dkms status lists, then find -delete.
RemoveDkmsModules(st) ==
    IF distro_family = "fedora"
       THEN [st EXCEPT !.host.dkms = @ \ {"nvidia.ko"}]
       ELSE [st EXCEPT !.host.dkms =
                IF st.host.dkms_ok THEN {} ELSE @ \ {"nvidia.ko"}]

\* remove_nvidia_configs
RemoveNvidiaConfigs(st) == [st EXCEPT !.host.configs = @ \ ConfigsRemoved]

\* remove_nvidia_libraries
RemoveNvidiaLibraries(st) == [st EXCEPT !.host.libs = @ \ LibsRemoved]

\* The sequence install_nvk and install_uninstall run.
CleanupSequence(st) ==
    RemoveNvidiaLibraries(RemoveNvidiaConfigs(RemoveDkmsModules(
        PurgeNvidiaPackages(CleanNvidiaArtifacts(st)))))

CleanupFrame ==
    UNCHANGED <<demo_mode, install_thread, sudo_password, nthreads, thread, backup_dir,
                now, nsnap, restore, resolverVars, commandVars, run, diskVars, laterVars>>

Cleanup ==
    /\ cleanups.runs < MaxCleanups
    /\ LET st == CleanupSequence(HostState(host, installed))
       IN host' = st.host /\ installed' = st.installed
    /\ cleanups' = [runs |-> cleanups.runs + 1]
    /\ CleanupFrame

\* cp of the unit file, daemon-reload, systemctl enable.
WriteUnit(unit) ==
    /\ unit \notin host.units
    /\ host' = [host EXCEPT !.units = @ \cup {unit}, !.enabled = @ \cup {unit}]
    /\ cleanups' = NoCleanups
    /\ UNCHANGED installed
    /\ CleanupFrame

\* generate_systemd_service, at the end of install_nvidia_run.
generate_systemd_service == WriteUnit("nvidia-run-install")

\* _create_nvk_reboot_service, at the end of install_nvk.
create_nvk_reboot_service == WriteUnit("nvk-check-reboot")

InitCleanup ==
    /\ demo_mode = FALSE
    /\ RequestsIdle
    /\ installed \in SUBSET Packages
    /\ listing = <<>>
    /\ curl = "fail"
    /\ wget = "fail"
    /\ versions = NoVersions
    /\ distro_family \in {"ubuntu", "fedora"}
    /\ apt_cache = [i \in 1..Len(Series) |-> "absent"]
    /\ dnf_list = <<>>
    /\ fedora_cache = NoCache
    /\ repo_driver = <<>>
    /\ repo_latest = <<>>
    /\ call = NoCall
    /\ child = NoChild
    /\ returned = NoResult
    /\ host \in [units : SUBSET {"nvidia-persistenced"}, enabled : SUBSET {"nvidia-persistenced"},
                 configs : SUBSET Configs, dkms : SUBSET DkmsModules, libs : SUBSET Libs,
                 pm_ok : BOOLEAN, dkms_ok : BOOLEAN]
    /\ host.enabled \subseteq host.units
    /\ cleanups = NoCleanups
    /\ run = NoRun
    /\ boot = NoBoot
    /\ history = NoHistory
    /\ lookup = NoLookup
    /\ safety = NoSafety
    /\ window = NoWindow

NextCleanup ==
    \/ Cleanup
    \/ generate_systemd_service
    \/ create_nvk_reboot_service

SpecCleanup == InitCleanup /\ [][NextCleanup]_vars

\* ------------------------------------------- InstallationThread.run

RunTypes == {"nvk", "uninstall", "repo", "run", "upgrade_repo", "unknown"}

\* The driver packages dpkg -l (rpm -q on Fedora) may list.
DriverPackages == {"nvidia-driver-580-open", "nvidia-driver-590-open"}

\* The cleanup functions of the worker.
CleanupSteps ==
    {"clean_nvidia_artifacts", "purge_nvidia_packages", "remove_dkms_modules",
     "remove_nvidia_configs", "remove_nvidia_libraries"}

\* The checks that only warn: _ensure_network, _check_secure_boot,
\* verify_nvidia_removal.
AdvisorySteps == {"network", "secure_boot", "verify_nvidia_removal"}

\* Strategies that clean before they ensure their dependencies.
PlanCleanupFirst(type) ==
    CASE type = "nvk" ->
             <<"clean_nvidia_artifacts", "purge_nvidia_packages", "remove_dkms_modules",
               "remove_nvidia_configs", "remove_nvidia_libraries", "verify_nvidia_removal",
               "configure_nouveau", "nvk_packages", "service">>
      [] type = "uninstall" ->
             <<"clean_nvidia_artifacts", "purge_nvidia_packages", "remove_dkms_modules",
               "remove_nvidia_configs", "remove_nvidia_libraries", "verify_nvidia_removal",
               "configure_nouveau", "initramfs">>
      [] type = "repo" ->
             <<"clean_nvidia_artifacts", "remove_dkms_modules", "purge_nvidia_packages",
               "deps", "build_reqs", "network", "secure_boot",
               "headers", "install_package", "block_nouveau", "initramfs">>
      [] type = "run" ->
             <<"clean_nvidia_artifacts", "remove_dkms_modules", "purge_nvidia_packages",
               "deps", "build_reqs", "download",
               "block_nouveau", "initramfs", "copy", "install_script", "service">>
      [] type = "unknown" -> <<"unknown_type">>
      [] OTHER ->
             IF distro_family = "fedora" THEN <<"lookup", "network", "upgrade">>
             ELSE <<"lookup", "network", "update", "upgrade">>

\* The steps of each strategy, in the order of the code: deps is
\* _ensure_dependencies (in run), build_reqs _ensure_build_requirements,
\* service the unit the strategy leaves for the next boot (in install_nvk with
\* what precedes it after the packages).
Plan(type) ==
    CASE type = "nvk" ->
             <<"clean_nvidia_artifacts", "purge_nvidia_packages", "remove_dkms_modules",
               "remove_nvidia_configs", "remove_nvidia_libraries", "verify_nvidia_removal",
               "configure_nouveau", "nvk_packages", "service">>
      [] type = "uninstall" ->
             <<"clean_nvidia_artifacts", "purge_nvidia_packages", "remove_dkms_modules",
               "remove_nvidia_configs", "remove_nvidia_libraries", "verify_nvidia_removal",
               "configure_nouveau", "initramfs">>
      [] type = "repo" ->
             <<"deps", "build_reqs", "network", "secure_boot",
               "clean_nvidia_artifacts", "remove_dkms_modules", "purge_nvidia_packages",
               "headers", "install_package", "block_nouveau", "initramfs">>
      [] type = "run" ->
             <<"deps", "build_reqs", "download",
               "clean_nvidia_artifacts", "remove_dkms_modules", "purge_nvidia_packages",
               "block_nouveau", "initramfs", "copy", "install_script", "service">>
      [] type = "unknown" -> <<"unknown_type">>
      [] OTHER ->
             IF distro_family = "fedora" THEN <<"lookup", "network", "upgrade">>
             ELSE <<"lookup", "network", "update", "upgrade">>

\* The strategy is running: started, not finished, nothing raised.
RunActive == run.pc >= 1 /\ run.finished = <<>> /\ ~run.raised

\* The step the worker is at; "complete" past the last one.
AtStep ==
    IF ~RunActive THEN "none"
    ELSE IF run.pc > Len(Plan(run.type)) THEN "complete"
    ELSE Plan(run.type)[run.pc]

\* A strategy that reports 100 when it starts to install its packages.
ProgressFullBeforeInstall(type, family, step) ==
    IF step \in {"nvk_packages", "install_package"} THEN <<100>> ELSE <<>>

\* The progress.emit(n) calls the strategy makes between the end of the step
\* before and the start of this one; those of the end of the strategy are
\* at "complete".
ProgressAt(type, family, step) ==
    CASE step = "complete" -> IF type = "unknown" THEN <<>> ELSE <<100>>
      [] type = "nvk" ->
             CASE step = "clean_nvidia_artifacts" -> <<5>>
               [] step = "configure_nouveau" -> <<20>>
               [] step = "nvk_packages" -> <<30>>
               [] step = "service" -> <<55, 75, 90>>
               [] OTHER -> <<>>
      [] type = "uninstall" ->
             CASE step = "clean_nvidia_artifacts" -> <<15>>
               [] step = "verify_nvidia_removal" -> <<50>>
               [] OTHER -> <<>>
      [] type = "repo" /\ family = "fedora" ->
             CASE step = "clean_nvidia_artifacts" -> <<5>>
               [] step = "install_package" -> <<25, 40>>
               [] step = "block_nouveau" -> <<75>>
               [] OTHER -> <<>>
      [] type = "repo" /\ family # "fedora" ->
             CASE step = "clean_nvidia_artifacts" -> <<10>>
               [] step = "headers" -> <<25>>
               [] step = "install_package" -> <<50>>
               [] step = "block_nouveau" -> <<85>>
               [] OTHER -> <<>>
      [] type = "run" ->
             CASE step = "build_reqs" -> <<5>>
               [] step = "clean_nvidia_artifacts" -> <<20>>
               [] step = "block_nouveau" -> <<40>>
               [] step = "copy" -> <<55>>
               [] step = "install_script" -> <<75>>
               [] OTHER -> <<>>
      [] type = "upgrade_repo" /\ step = "network" -> <<20>>
      [] OTHER -> <<>>

\* The run at the start of the step it is at, the checkpoints before the
\* step emitted.
AtWork == [run EXCEPT !.progress = @ \o ProgressAt(run.type, distro_family, AtStep)]

\* One command of a step, as run_cmd ran it.
Command(step, arg, rc, sudo) == [step |-> step, arg |-> arg, rc |-> rc, sudo |-> sudo]

RunFrame ==
    UNCHANGED <<demo_mode, requestVars, resolverVars, commandVars, hostVars, diskVars,
                laterVars>>

\* A strategy that emits finished and falls through to a second emit.
FinishTwice(r, code) == [r EXCEPT !.finished = @ \o <<code, code>>]

\* self.finished.emit(code); return
Finish(r, code) == [r EXCEPT !.finished = Append(@, code)]

\* The step ran and the strategy goes on.
Advance(r, cmds) == [r EXCEPT !.pc = @ + 1, !.log = @ \o cmds]

\* An exception leaves the strategy for the except Exception of run().
Raise(r) == [r EXCEPT !.raised = TRUE]

\* A strategy that goes on after a prerequisite failed.
PrerequisiteIgnored(r, cmd) == Advance(r, <<cmd>>)

\* A prerequisite: a non-zero code ends the run with finished(1).
Prerequisite(r, cmd) ==
    IF cmd.rc = 0 THEN Advance(r, <<cmd>>)
    ELSE Finish([r EXCEPT !.log = Append(@, cmd)], 1)

\* A strategy that stops at the first command that fails.
IgnoredIsFatal(r, cmd) ==
    IF cmd.rc = 0 THEN Advance(r, <<cmd>>)
    ELSE Finish([r EXCEPT !.log = Append(@, cmd)], 1)

\* A command whose code the strategy does not look at.
Ignored(r, cmd) == Advance(r, <<cmd>>)

\* A worker is created for a request and started; in demo mode every
\* strategy only emits finished(0).
StartWorker ==
    /\ run = NoRun
    /\ \E type \in RunTypes :
          run' = IF demo_mode /\ type # "unknown"
                 THEN Finish([NoRun EXCEPT !.type = type, !.pc = 1], 0)
                 ELSE [NoRun EXCEPT !.type = type, !.pc = 1]
    /\ RunFrame

\* The else branch of run(): an install type that is none of the five;
\* output.emit(log_unknown_install), finished.emit(1).
UnknownType ==
    /\ AtStep = "unknown_type"
    /\ run' = Finish(AtWork, 1)
    /\ RunFrame

\* The query of a prerequisite step: get_missing_dependency_packages for
\* deps, the rpm -q / which / dpkg -l of _ensure_build_requirements.
CheckOf(step) == IF step = "deps" THEN "deps_check" ELSE "build_reqs_check"

\* _ensure_dependencies (in run) and _ensure_build_requirements (in the
\* strategy): the queries (rpm -q on the fedora family, dpkg -l on every
\* other one, not elevated), a non-zero code meaning a missing package; then
\* the installation of what is missing, if anything.
EnsurePrerequisites ==
    /\ AtStep \in {"deps", "build_reqs"}
    /\ \E missing \in BOOLEAN, rc \in {0, 1} :
          LET check == Command(CheckOf(AtStep), "", IF missing THEN 1 ELSE 0, FALSE)
              r == [AtWork EXCEPT !.log = Append(@, check)]
          IN  run' = IF missing
                     THEN Prerequisite(r, Command(AtStep, "missing", rc, TRUE))
                     ELSE Advance(r, <<>>)
    /\ RunFrame

\* A strategy that goes on without the installer.
DownloadIgnored(r, cmd) == Advance(r, <<cmd>>)

\* if not self.download_nvidia_run(version): finished(1)
Download(r, cmd) ==
    IF cmd.rc = 0 THEN Advance(r, <<cmd>>)
    ELSE Finish([r EXCEPT !.log = Append(@, cmd)], 1)

\* The installer in the cache is looked at (run_file.exists(), stat, which
\* may raise) and download_nvidia_run is called when it is absent or too
\* small; rc is 0 when wget or curl left a file of the expected size.
DownloadRun ==
    /\ AtStep = "download"
    /\ \E cached \in BOOLEAN, rc \in {0, 1}, raises \in BOOLEAN :
          LET looked == Command("cache", IF cached THEN "cached" ELSE "absent", 0, FALSE)
              r == [AtWork EXCEPT !.log = Append(@, looked)]
          IN  run' = IF raises THEN Raise(AtWork)
                     ELSE IF cached THEN Advance(r, <<>>)
                     ELSE Download(r, Command("download", "installer", rc, FALSE))
    /\ RunFrame

\* A check that stops the strategy when it warns.
AdvisoryIsFatal(r, cmd, warns) ==
    IF warns THEN Finish([r EXCEPT !.log = Append(@, cmd), !.warn = Append(@, cmd.step)], 1)
    ELSE Advance(r, <<cmd>>)

\* A check that only warns: the strategy goes on, with one more log line.
Advisory(r, cmd, warns) ==
    IF warns THEN Advance([r EXCEPT !.warn = Append(@, cmd.step)], <<cmd>>)
    ELSE Advance(r, <<cmd>>)

\* What makes each check warn: ping failing; mokutil or ldconfig -p succeeding
\* with the word (enabled, nvidia) in their output.
Warns(step, rc, out) == IF step = "network" THEN rc # 0 ELSE rc = 0 /\ out # ""

\* _ensure_network, _check_secure_boot, verify_nvidia_removal.
AdvisoryCheck ==
    /\ AtStep \in AdvisorySteps
    /\ \E rc \in {0, 1}, out \in {"", "found"} :
          run' = Advisory(AtWork, Command(AtStep, out, rc, FALSE), Warns(AtStep, rc, out))
    /\ RunFrame

\* The cleanup functions, and the commands whose code the strategy does not
\* look at: the headers, the boot image, the copy of the installer.
IgnoredStep ==
    /\ AtStep \in CleanupSteps \cup {"headers", "initramfs", "copy"}
    /\ \E rc \in {0, 1} : run' = Ignored(AtWork, Command(AtStep, "", rc, TRUE))
    /\ RunFrame

\* configure_nouveau_for_nvk, block_nouveau, and the unit written for the next boot: each writes a file under /tmp with open(),
\* which may raise; the codes of their commands are not looked at.
FileStep ==
    /\ AtStep \in {"configure_nouveau", "block_nouveau", "install_script", "service"}
    /\ \E rc \in {0, 1}, raises \in BOOLEAN :
          run' = IF raises THEN Raise(AtWork)
                 ELSE Ignored(AtWork, Command(AtStep, "", rc, TRUE))
    /\ RunFrame

\* An install_repo that blocks the fallback module whatever the package
\* installation returned.
InstallRepoPackageThenBlock(r, cmd) == Advance(r, <<cmd>>)

\* rc, _ = run_cmd([... "install", "-y", package]); if rc == 0: block_nouveau,
\* rebuild_initramfs, ...; else: finished.emit(1).
InstallRepoPackage(r, cmd) ==
    IF cmd.rc = 0 THEN Advance(r, <<cmd>>)
    ELSE Finish([r EXCEPT !.log = Append(@, cmd)], 1)

\* install_nvk_packages, and apt-get install -y <package> (dnf install on
\* Fedora) in install_repo.
InstallPackages ==
    /\ AtStep \in {"nvk_packages", "install_package"}
    /\ \E rc \in {0, 1} :
          LET cmd == Command(AtStep, "package", rc, TRUE)
          IN  run' = IF AtStep = "install_package" THEN InstallRepoPackage(AtWork, cmd)
                     ELSE Prerequisite(AtWork, cmd)
    /\ RunFrame

\* get_installed_nvidia_driver_package: the first driver package dpkg -l
\* lists, akmod-nvidia on Fedora, "" (None) when there is none.
InstalledDriverPackage ==
    IF installed = {} THEN ""
    ELSE IF distro_family = "fedora" THEN "akmod-nvidia"
    ELSE IF "nvidia-driver-580-open" \in installed THEN "nvidia-driver-580-open"
    ELSE "nvidia-driver-590-open"

\* An upgrade of one fixed driver series, whatever is installed.
UpgradeArgSeries(step) == IF step = "upgrade" THEN "nvidia-driver-580-open" ELSE ""

\* The package the command names: pkg for the upgrade, none for apt-get update.
UpgradeArg(step) == IF step = "upgrade" THEN InstalledDriverPackage ELSE ""

\* install_upgrade_repo up to the package name: the query (dpkg -l, rpm -q,
\* not elevated) and, with no name found, finished(0).
UpgradeLookup ==
    /\ AtStep = "lookup"
    /\ \E rc \in {0, 1} :
          LET pkg == IF rc = 0 THEN InstalledDriverPackage ELSE ""
              query == Command("lookup", pkg, rc, FALSE)
          IN  run' = IF pkg = "" THEN Finish([AtWork EXCEPT !.log = Append(@, query)], 0)
                     ELSE Advance(AtWork, <<query>>)
    /\ RunFrame

\* apt-get update, then apt-get install --only-upgrade -y pkg; dnf upgrade -y
\* pkg on Fedora.
UpgradeCommands ==
    /\ AtStep \in {"update", "upgrade"}
    /\ \E rc \in {0, 1} :
          run' = Prerequisite(AtWork, Command(AtStep, UpgradeArg(AtStep), rc, TRUE))
    /\ RunFrame

\* A strategy that asks for the restart without recording that one is needed.
KeepRestartNeeded(r) == r

\* self.restart_needed = True
SetRestartNeeded(r) == [r EXCEPT !.restart_needed = TRUE]

\* self.ask_restart.emit(): each emission is kept with the value restart_needed
\* had when it was made.
AskRestart(r) == [r EXCEPT !.asked = Append(@, r.restart_needed)]

\* The end of every strategy: restart_needed = True; ask_restart.emit();
\* finished.emit(0).
Complete ==
    /\ AtStep = "complete"
    /\ run' = Finish(AskRestart(SetRestartNeeded(AtWork)), 0)
    /\ RunFrame

\* The handler of run() is at its start, at save_error_report, or at its
\* finished.emit(1); nowhere once the thread has ended.
HandlerAt ==
    IF ~run.raised \/ run.finished # <<>> \/ run.pc = 0 THEN "none"
    ELSE IF run.report = <<>> THEN "collect"
    ELSE IF run.report = <<"collected">> THEN "save"
    ELSE "emit"

\* A handler that lets what collect_error_report or save_error_report raises
\* out of the worker: no finished is emitted.
ReportRaisedEscapes(r, event) ==
    IF event \in {"collect_raised", "save_raised"}
    THEN [r EXCEPT !.report = Append(@, event), !.pc = 0]
    ELSE [r EXCEPT !.report = Append(@, event)]

\* try: ... except: pass -- what the two calls raise is dropped.
ReportStep(r, event) == [r EXCEPT !.report = Append(@, event)]

\* window.collect_error_report(str(e), ...): the record (timestamp, message,
\* distro, kernel, GPU, current driver), or an exception (os.uname, a field
\* of the system object).
CollectErrorReport ==
    /\ HandlerAt = "collect"
    /\ \E event \in {"collected", "collect_raised"} : run' = ReportStep(run, event)
    /\ RunFrame

\* window.save_error_report(report): the file written, or None when the
\* write failed, or an exception (error_dir.mkdir, the log call).
SaveErrorReport ==
    /\ HandlerAt = "save"
    /\ \E event \in {"saved", "save_failed", "save_raised"} : run' = ReportStep(run, event)
    /\ RunFrame

\* self.finished.emit(1), the last statement of the handler.
EmitFailure ==
    /\ HandlerAt = "emit"
    /\ run' = Finish(run, 1)
    /\ RunFrame

InitWorker ==
    /\ demo_mode \in BOOLEAN
    /\ RequestsIdle
    /\ distro_family \in {"ubuntu", "fedora", "other"}
    /\ installed \in SUBSET DriverPackages
    /\ listing = <<>>
    /\ curl = "fail"
    /\ wget = "fail"
    /\ versions = NoVersions
    /\ apt_cache = [i \in 1..Len(Series) |-> "absent"]
    /\ dnf_list = <<>>
    /\ fedora_cache = NoCache
    /\ repo_driver = <<>>
    /\ repo_latest = <<>>
    /\ EngineIdle

NextWorker ==
    \/ StartWorker
    \/ UnknownType
    \/ EnsurePrerequisites
    \/ AdvisoryCheck
    \/ DownloadRun
    \/ IgnoredStep
    \/ FileStep
    \/ InstallPackages
    \/ UpgradeLookup
    \/ UpgradeCommands
    \/ Complete
    \/ CollectErrorReport
    \/ SaveErrorReport
    \/ EmitFailure

SpecWorker == InitWorker /\ [][NextWorker]_vars

\* The worker's thread is scheduled: a step of run() that can be taken is
\* taken.
SpecWorkerLive == SpecWorker /\ WF_vars(NextWorker)

\* ------------------------------ run-install-v2.sh, the generated boot script

\* The steps of the script generate_install_script writes, in the order of
\* its text: the Fedora script configures (blacklist, dracut) before it looks
\* for the module; the Debian one looks for it first and once more at the end.
BootScript(family) ==
    IF family = "fedora"
    THEN <<"archive", "disable", "prepare", "installer", "configure", "verify", "finish">>
    ELSE <<"archive", "disable", "prepare", "installer", "verify", "configure", "final",
           "finish">>

ScriptAt == IF boot.pc = 0 THEN "off" ELSE BootScript(distro_family)[boot.pc]

BootFrame ==
    UNCHANGED <<demo_mode, requestVars, resolverVars, commandVars, hostVars, run, history,
                laterVars>>

\* exit 1
ScriptExit(b) == [b EXCEPT !.pc = 0, !.exits = Append(@, 1)]

ScriptGoesOn(b) == [b EXCEPT !.pc = @ + 1]

\* install_nvidia_run to its end, between two boots: the installer copied to
\* INSTALL_DIR (cp, not looked at), block_nouveau (cp, not looked at), the
\* script written, the unit written and enabled. execs and exits are those
\* of the latest request.
VendorPackageRequest ==
    /\ boot.pc = 0
    /\ boot.requests < MaxVendorRequests
    /\ \E archive \in BOOLEAN, blacklist \in BOOLEAN :
          boot' = [boot EXCEPT !.requests = @ + 1, !.enabled = TRUE, !.execs = 0,
                               !.exits = <<>>, !.archive = @ \/ archive,
                               !.blacklist = @ \/ blacklist, !.initramfs = FALSE,
                               !.rebooted = FALSE]
    /\ BootFrame

\* The host boots: systemd starts nvidia-run-install.service, and with it the
\* script, when the unit is enabled.
BootHost ==
    /\ boot.pc = 0
    /\ boot.boots < MaxBoots
    /\ boot' = IF boot.enabled
               THEN [boot EXCEPT !.boots = @ + 1, !.execs = @ + 1, !.pc = 1,
                                 !.verified = FALSE, !.rebooted = FALSE]
               ELSE [boot EXCEPT !.boots = @ + 1, !.rebooted = FALSE]
    /\ BootFrame

\* if [ ! -f "$RUN_FILE" ]; then ... exit 1
ArchiveChecked(b) == IF b.archive THEN ScriptGoesOn(b) ELSE ScriptExit(b)

ScriptArchive ==
    /\ ScriptAt = "archive"
    /\ boot' = ArchiveChecked(boot)
    /\ BootFrame

\* systemctl disable nvidia-run-install.service 2>/dev/null || true
ScriptDisable ==
    /\ ScriptAt = "disable"
    /\ boot' = ScriptGoesOn([boot EXCEPT !.enabled = FALSE])
    /\ BootFrame

\* Phase 1: rm -f /etc/modprobe.d/blacklist-nouveau.conf ..., the display
\* managers stopped, nouveau unloaded.
ScriptPrepare ==
    /\ ScriptAt = "prepare"
    /\ boot' = ScriptGoesOn([boot EXCEPT !.blacklist = FALSE])
    /\ BootFrame

\* Phase 2: the vendor installer, whose exit code is only logged; it leaves
\* the module in the kernel tree or not and, with --dkms, registered or not.
ScriptInstaller ==
    /\ ScriptAt = "installer"
    /\ \E module \in BOOLEAN, registered \in BOOLEAN :
          /\ distro_family = "fedora" => ~registered
          /\ boot' = ScriptGoesOn([boot EXCEPT !.module = module, !.registered = registered])
    /\ BootFrame

\* nvidia_modules=$(find /lib/modules/$kernel_ver -name "nvidia.ko*" ...);
\* if [ -z "$nvidia_modules" ]; then ... exit 1
ModuleFound(b) == IF b.module THEN ScriptGoesOn([b EXCEPT !.verified = TRUE]) ELSE ScriptExit(b)

\* The verification: on Fedora the one look in the kernel tree. On Debian
\* (phase 3) the sources are registered with dkms when the installer left
\* none (added), no registration ends the script, and a module missing from
\* the tree is built and installed through dkms, each failure ending the
\* script, before the tree is looked at again.
ScriptVerify ==
    /\ ScriptAt = "verify"
    /\ \E added \in BOOLEAN, built \in BOOLEAN, found \in BOOLEAN :
          /\ distro_family = "fedora" \/ boot.registered => ~added
          /\ distro_family = "fedora" \/ boot.module \/ ~(boot.registered \/ added)
                 => built /\ found
          /\ ~built => ~found
          /\ boot' = IF distro_family = "fedora" THEN ModuleFound(boot)
                     ELSE IF ~(boot.registered \/ added) THEN ScriptExit(boot)
                     ELSE IF boot.module
                          THEN ModuleFound([boot EXCEPT !.registered = TRUE])
                     ELSE IF ~built THEN ScriptExit([boot EXCEPT !.registered = TRUE])
                     ELSE ModuleFound([boot EXCEPT !.registered = TRUE, !.module = found])
    /\ BootFrame

\* The configuration (phase 3 on Fedora, phase 4 on Debian): nvidia-drm.conf,
\* blacklist-nouveau.conf, then dracut --force or update-initramfs.
ScriptConfigure ==
    /\ ScriptAt = "configure"
    /\ boot' = ScriptGoesOn([boot EXCEPT !.blacklist = TRUE, !.initramfs = TRUE])
    /\ BootFrame

\* Phase 5 on Debian: the tree is looked at once more.
ScriptFinal ==
    /\ ScriptAt = "final"
    /\ boot' = IF boot.module THEN ScriptGoesOn(boot) ELSE ScriptExit(boot)
    /\ BootFrame

\* systemctl disable nvidia-run-install.service ...; sleep 5; reboot
ScriptFinish ==
    /\ ScriptAt = "finish"
    /\ boot' = [boot EXCEPT !.enabled = FALSE, !.rebooted = TRUE, !.pc = 0,
                            !.exits = Append(@, 0)]
    /\ BootFrame

\* A host on which no vendor package was requested yet.
InitBoot ==
    /\ demo_mode = FALSE
    /\ RequestsIdle
    /\ installed = {}
    /\ listing = <<>>
    /\ curl = "fail"
    /\ wget = "fail"
    /\ versions = NoVersions
    /\ distro_family \in {"ubuntu", "fedora"}
    /\ apt_cache = [i \in 1..Len(Series) |-> "absent"]
    /\ dnf_list = <<>>
    /\ fedora_cache = NoCache
    /\ repo_driver = <<>>
    /\ repo_latest = <<>>
    /\ call = NoCall
    /\ child = NoChild
    /\ returned = NoResult
    /\ host = CleanHost
    /\ cleanups = NoCleanups
    /\ run = NoRun
    /\ boot = NoBoot
    /\ history = NoHistory
    /\ lookup = NoLookup
    /\ safety = NoSafety
    /\ window = NoWindow

NextBoot ==
    \/ VendorPackageRequest
    \/ BootHost
    \/ ScriptArchive
    \/ ScriptDisable
    \/ ScriptPrepare
    \/ ScriptInstaller
    \/ ScriptVerify
    \/ ScriptConfigure
    \/ ScriptFinal
    \/ ScriptFinish

SpecBoot == InitBoot /\ [][NextBoot]_vars

\* -------------------------- _fedora_repo_driver_version and its callers

LookupFrame ==
    UNCHANGED <<demo_mode, requestVars, versionVars, distro_family, apt_cache, dnf_list,
                repo_driver, repo_latest, commandVars, hostVars, run, diskVars, safety,
                window>>

\* highest_repo_driver and highest_repo_driver_latest run on the window's
\* thread, one at a time; FetchFedoraRepoThread runs beside them.
OnWindowThread(c) == c \in {"repo", "latest"}

WindowThreadFree(c) ==
    \A d \in Callers \ {c} : OnWindowThread(d) => lookup.callers[d].pc \in {"idle", "done"}

\* ver if ver else "580": what each caller hands on.
VersionOr580(ver) == IF ver # <<>> THEN ver ELSE <<580>>

\* if self._fedora_repo_version_cache is not None: return it
LookupCheck(c) ==
    /\ lookup.callers[c].pc = "idle"
    /\ OnWindowThread(c) => WindowThreadFree(c)
    /\ lookup' = IF fedora_cache.set
                 THEN [lookup EXCEPT !.callers[c].pc = "done",
                                     !.callers[c].returned = VersionOr580(fedora_cache.ver)]
                 ELSE [lookup EXCEPT !.callers[c].pc = "query"]
    /\ UNCHANGED fedora_cache
    /\ LookupFrame

\* dnf list available akmod-nvidia -q, up to 60 s: the version the repository
\* holds, or nothing when the command failed or printed no version.
LookupQuery(c) ==
    /\ lookup.callers[c].pc = "query"
    /\ \E ok \in BOOLEAN :
          lookup' = [lookup EXCEPT !.callers[c].pc = "store",
                                   !.callers[c].ver =
                                       IF ok /\ HasDot(dnf_list) THEN dnf_list ELSE <<>>,
                                   !.queries = @ + 1]
    /\ UNCHANGED fedora_cache
    /\ LookupFrame

\* self._fedora_repo_version_cache = ver; return ver
LookupStore(c) ==
    /\ lookup.callers[c].pc = "store"
    /\ fedora_cache' = [set |-> TRUE, ver |-> lookup.callers[c].ver]
    /\ lookup' = [lookup EXCEPT !.callers[c].pc = "done",
                                !.callers[c].returned = VersionOr580(lookup.callers[c].ver)]
    /\ LookupFrame

\* load_system_info on the fedora family: the thread is started; the window
\* is ready for its buttons.
InitLookup ==
    /\ demo_mode = FALSE
    /\ RequestsIdle
    /\ installed = {}
    /\ listing = <<>>
    /\ curl = "fail"
    /\ wget = "fail"
    /\ versions = NoVersions
    /\ distro_family = "fedora"
    /\ apt_cache = [i \in 1..Len(Series) |-> "absent"]
    /\ dnf_list \in {<<>>, <<570>>, <<570, 144>>, <<580, 95>>}
    /\ fedora_cache = NoCache
    /\ repo_driver = <<>>
    /\ repo_latest = <<>>
    /\ EngineIdle

NextLookup ==
    \/ \E c \in Callers : LookupCheck(c)
    \/ \E c \in Callers : LookupQuery(c)
    \/ \E c \in Callers : LookupStore(c)

SpecLookup == InitLookup /\ [][NextLookup]_vars

\* ------------------------------------------------ append_install_history

\* The kinds of entry the window records, and how open(HISTORY_FILE, "w")
\* with json.dump ends: written; open raised, the file untouched; or the
\* write raised after open had truncated the file.
HistoryTypes == {"nvk", "repo", "run"}

WriteOutcomes == {"written", "open_raised", "write_raised"}

\* What a file that was opened for writing and not written in full holds:
\* nothing json.load can read as a list.
Truncated == [kind |-> "unreadable", entries |-> <<>>]

\* The file after json.dump(history) ended as outcome.
Written(file, entries, outcome) ==
    CASE outcome = "written" -> [kind |-> "list", entries |-> entries]
      [] outcome = "open_raised" -> file
      [] OTHER -> Truncated

\* append_install_history(install_type, version): the list read when the
\* file exists (a file that cannot be read or parsed, or that holds no list,
\* raises and the call ends), the entry appended, the file rewritten; every
\* exception is dropped.
AppendInstallHistory(h, entry, readable, outcome) ==
    LET file == h.file
        after ==
            IF file.kind = "absent" THEN Written(file, <<entry>>, outcome)
            ELSE IF file.kind = "list" /\ readable
            THEN Written(file, Append(file.entries, entry), outcome)
            ELSE file
    IN  [file |-> after, before |-> file, calls |-> h.calls + 1]

append_install_history ==
    /\ history.calls < MaxAppends
    /\ \E type \in HistoryTypes, readable \in BOOLEAN, outcome \in WriteOutcomes :
          history' = AppendInstallHistory(history,
                         [date |-> history.calls + 1, type |-> type, success |-> TRUE],
                         readable, outcome)
    /\ UNCHANGED <<demo_mode, requestVars, resolverVars, commandVars, hostVars, run, boot,
                   laterVars>>

\* The history file the process finds: none, the list of an earlier session,
\* or a file that is no list.
InitHistory ==
    /\ demo_mode \in BOOLEAN
    /\ RequestsIdle
    /\ installed = {}
    /\ ResolverIdle
    /\ call = NoCall
    /\ child = NoChild
    /\ returned = NoResult
    /\ host = CleanHost
    /\ cleanups = NoCleanups
    /\ run = NoRun
    /\ boot = NoBoot
    /\ lookup = NoLookup
    /\ safety = NoSafety
    /\ window = NoWindow
    /\ \E file \in {NoFile, Truncated,
                    [kind |-> "list", entries |-> <<>>],
                    [kind |-> "list",
                     entries |-> <<[date |-> 0, type |-> "repo", success |-> TRUE]>>]} :
          history = [file |-> file, before |-> file, calls |-> 0]

NextHistory == append_install_history

SpecHistory == InitHistory /\ [][NextHistory]_vars

\* ------------------------------- nvk-check-reboot.service, boot after boot

SafetyFrame ==
    UNCHANGED <<demo_mode, requestVars, resolverVars, commandVars, hostVars, run, diskVars,
                lookup, window>>

\* The host is up and the unit is not running: the application can be used.
HostUp == safety.pc = "off"

\* install_nvk up to and including _create_nvk_reboot_service: the packages
\* are purged unless the package manager fails; cp of the unit file,
\* daemon-reload, systemctl enable, none of whose codes is looked at.
CreateNvkRebootService ==
    /\ HostUp
    /\ safety.registrations < MaxSafetyRequests
    /\ \E purged \in BOOLEAN, cp_ok \in BOOLEAN, enable_ok \in BOOLEAN :
          LET unit == safety.unit \/ cp_ok
          IN  safety' = [safety EXCEPT !.registrations = @ + 1,
                                       !.unit = unit,
                                       !.enabled = @ \/ (unit /\ enable_ok),
                                       !.driver = @ /\ ~purged,
                                       !.execs = 0,
                                       !.forced = 0]
    /\ SafetyFrame

\* A repository or vendor package install before the next boot: the services
\* clean_nvidia_artifacts stops, disables and deletes do not include
\* nvk-check-reboot, so the unit stays as it is.
InstallProprietaryDriver ==
    /\ HostUp
    /\ safety.registrations >= 1
    /\ ~safety.driver
    /\ safety' = [safety EXCEPT !.driver = TRUE]
    /\ SafetyFrame

\* The host boots. The proprietary modules are loaded when the driver is
\* installed, and may be when it was removed (a partial unload). An enabled
\* unit is started after multi-user.target.
BootSafety ==
    /\ safety.pc \in {"off", "down"}
    /\ safety.boots < MaxSafetyBoots
    /\ \E residue \in BOOLEAN :
          safety' = [safety EXCEPT !.boots = @ + 1,
                                   !.loaded = safety.driver \/ residue,
                                   !.pc = IF safety.enabled THEN "check" ELSE "off",
                                   !.execs = IF safety.enabled THEN @ + 1 ELSE @]
    /\ SafetyFrame

\* sleep 10; if lsmod | grep -q nvidia; then echo ...; reboot; fi
SafetyCheck ==
    /\ safety.pc = "check"
    /\ safety' = IF safety.loaded
                 THEN [safety EXCEPT !.forced = @ + 1, !.pc = "rebooting"]
                 ELSE [safety EXCEPT !.pc = "disable"]
    /\ SafetyFrame

\* systemctl disable nvk-check-reboot.service || true, with no reboot asked.
SafetyDisable ==
    /\ safety.pc = "disable"
    /\ safety' = [safety EXCEPT !.enabled = FALSE, !.pc = "off"]
    /\ SafetyFrame

\* reboot has returned and the shutdown is under way: the shell goes on to
\* systemctl disable while systemd stops the units, this one among them. The
\* disable takes effect or the shell is terminated before it.
SafetyShutdown ==
    /\ safety.pc = "rebooting"
    /\ \E disabled \in BOOLEAN :
          safety' = [safety EXCEPT !.enabled = @ /\ ~disabled, !.pc = "down"]
    /\ SafetyFrame

InitSafety ==
    /\ demo_mode = FALSE
    /\ RequestsIdle
    /\ installed = {}
    /\ ResolverIdle
    /\ EngineIdle

NextSafety ==
    \/ CreateNvkRebootService
    \/ InstallProprietaryDriver
    \/ BootSafety
    \/ SafetyCheck
    \/ SafetyDisable
    \/ SafetyShutdown

SpecSafety == InitSafety /\ [][NextSafety]_vars

\* ------------------------------------ the window's event loop and handlers

WindowLoopFrame ==
    UNCHANGED <<demo_mode, requestVars, resolverVars, commandVars, hostVars, run, diskVars,
                lookup, safety>>

WindowTypes == {"nvk", "repo", "run", "uninstall", "upgrade_repo"}

\* The types whose finished handler appends to the history and logs the
\* completion line: _on_nvk_finished, _on_repo_finished,
\* _on_repo_latest_finished, _on_run_finished.
HistoryHandlers == {"nvk", "repo", "run"}

\* QThread.isRunning(): run() has not returned.
IsRunning(r) == window.threads[r].state \in {"running", "asked"}

\* The window takes input: it is open and no modal dialog is in front of it.
WindowFree == ~window.closed /\ window.dialogs = <<>>

\* An install entry point up to thread.start(): check_sudo (the password is
\* typed, or sudo needs none), the thread created with the password the
\* window holds, self._install_thread = thread.
InstallRequest ==
    /\ WindowFree
    /\ window.requests < MaxWindowRequests
    /\ \E type \in WindowTypes, typed \in BOOLEAN :
          LET r == window.requests + 1
              password == IF typed THEN "pw" ELSE window.password
          IN  window' = [window EXCEPT
                            !.requests = r,
                            !.password = password,
                            !.install_thread = r,
                            !.threads[r] = [type |-> type, state |-> "running",
                                            captured |-> password, code |-> -1]]
    /\ WindowLoopFrame

\* The worker, at the end of a successful strategy: self.ask_restart.emit(),
\* queued for the window's thread.
WorkerAsksRestart(r) ==
    /\ ~window.closed
    /\ window.threads[r].state = "running"
    /\ window' = [window EXCEPT
                     !.threads[r].state = "asked",
                     !.queue = Append(@, [sig |-> "ask_restart", r |-> r, code |-> 0])]
    /\ WindowLoopFrame

\* self.finished.emit(code), queued for the window's thread, and the end of
\* run(): 0 after ask_restart (and for an upgrade that found no package),
\* 1 otherwise.
WorkerFinishes(r) ==
    /\ ~window.closed
    /\ IsRunning(r)
    /\ \E code \in {0, 1} :
          /\ code = 0 =>
                 \/ window.threads[r].state = "asked"
                 \/ window.threads[r].type = "upgrade_repo"
          /\ code = 1 => window.threads[r].state = "running"
          /\ window' = [window EXCEPT
                           !.threads[r].state = "ended",
                           !.threads[r].code = code,
                           !.queue = Append(@, [sig |-> "finished", r |-> r, code |-> code])]
    /\ WindowLoopFrame

\* The event loop (the window's, or the one of an open message box) delivers
\* the oldest queued signal. ask_restart: QMessageBox.question opens and runs
\* its own event loop until it is answered.
DeliverAskRestart ==
    /\ ~window.closed
    /\ window.queue # <<>>
    /\ Head(window.queue).sig = "ask_restart"
    /\ window' = [window EXCEPT !.queue = Tail(@),
                                 !.dialogs = Append(@, Head(window.queue).r)]
    /\ WindowLoopFrame

\* The finished handler of the request: for the history handlers,
\* append_install_history when code == 0 and the completion line at level
\* SUCCESS; for all, _install_thread = None and _sudo_password = None.
DeliverFinished ==
    /\ ~window.closed
    /\ window.queue # <<>>
    /\ Head(window.queue).sig = "finished"
    /\ LET r == Head(window.queue).r
           code == Head(window.queue).code
           logs == window.threads[r].type \in HistoryHandlers
       IN  window' = [window EXCEPT
                         !.queue = Tail(@),
                         !.threads[r].state = "handled",
                         !.appended = IF logs /\ code = 0 THEN Append(@, r) ELSE @,
                         !.success = IF logs THEN @ \cup {r} ELSE @,
                         !.install_thread = 0,
                         !.password = "none"]
    /\ WindowLoopFrame

\* The user answers the restart question in front: on Yes, run_command(
\* ["reboot"], sudo=True, sudo_password=getattr(self, "_sudo_password", None)),
\* the password read when the answer is given.
AnswerRestart ==
    /\ ~window.closed
    /\ window.dialogs # <<>>
    /\ \E yes \in BOOLEAN :
          LET r == window.dialogs[Len(window.dialogs)]
              rest == SubSeq(window.dialogs, 1, Len(window.dialogs) - 1)
          IN  window' =
                  IF yes
                  THEN [window EXCEPT
                           !.dialogs = rest,
                           !.reboots = Append(@, [r |-> r, password |-> window.password,
                                                  captured |-> window.threads[r].captured]),
                           !.closed = TRUE]
                  ELSE [window EXCEPT !.dialogs = rest]
    /\ WindowLoopFrame

\* closeEvent: the question is asked when _install_thread is set and running;
\* the close is refused unless it is answered Yes.
CloseEvent ==
    /\ WindowFree
    /\ \E confirm \in BOOLEAN :
          LET asked == window.install_thread # 0 /\ IsRunning(window.install_thread)
              accepted == ~asked \/ confirm
          IN  window' = [window EXCEPT
                            !.close = [called |-> TRUE,
                                       running |-> \E r \in 1..MaxWindowRequests : IsRunning(r),
                                       asked |-> asked,
                                       confirm |-> asked /\ confirm,
                                       accepted |-> accepted],
                            !.closed = accepted]
    /\ WindowLoopFrame

InitWindow ==
    /\ demo_mode = FALSE
    /\ RequestsIdle
    /\ installed = {}
    /\ ResolverIdle
    /\ EngineIdle

NextWindow ==
    \/ InstallRequest
    \/ \E r \in 1..MaxWindowRequests : WorkerAsksRestart(r)
    \/ \E r \in 1..MaxWindowRequests : WorkerFinishes(r)
    \/ DeliverAskRestart
    \/ DeliverFinished
    \/ AnswerRestart
    \/ CloseEvent

SpecWindow == InitWindow /\ [][NextWindow]_vars

\* ------------------------------------------------------------------ claims

\* C1: while a worker started by an install entry point has not signaled
\* finished, a further call starts no second worker: at most one worker is
\* active at any time.
SingleFlight == Cardinality({r \in Threads : Running(r)}) <= 1

\* C2: for NVK, Repository and VendorPackage requests the snapshot step
\* (create_backup) has run and returned before the worker exists, so no cleanup
\* of the request is executed before the snapshot step of the same request.
SnapshotStepBeforeCleanup ==
    \A r \in Threads :
        (thread[r].type \in {"nvk", "repo", "run"} /\ thread[r].pc # "none")
            => thread[r].snap \in {"written", "failed"}

\* A worker of such a request has run its cleanup, after the snapshot was written.
SnapshotStepBeforeCleanupWitness ==
    \E r \in Threads :
        /\ thread[r].type \in {"nvk", "repo", "run"}
        /\ thread[r].cleaned
        /\ thread[r].snap = "written"

\* C3: an Uninstall request writes a Backup record before any removal command
\* of that request runs.
UninstallBackedUpBeforeRemoval ==
    \A r \in Threads :
        (thread[r].type = "uninstall" /\ thread[r].cleaned) => thread[r].snap = "written"

\* C4: if persisting the Backup record fails (create_backup returns no record),
\* no worker is started for the request and no cleanup command of it runs.
FailedSnapshotStopsRequest ==
    \A r \in Threads :
        thread[r].snap = "failed" => (~Running(r) /\ ~thread[r].cleaned)

\* C5: after n successful snapshots from an empty directory exactly min(n, 10)
\* records remain, and they are the min(n, 10) most recently created ones.
RetentionKeepsNewest ==
    LET kept == Min(nsnap, MAX_BACKUPS)
    IN /\ Cardinality(DOMAIN backup_dir) = kept
       /\ {backup_dir[s].serial : s \in DOMAIN backup_dir} = (nsnap - kept + 1)..nsnap

\* C6: restore_backup on a snapshot whose package list is empty returns failure,
\* runs no package-manager command and leaves the installed packages unchanged.
RestoreEmptyFailsCleanly ==
    [][(restore'.calls = restore.calls + 1 /\ restore'.packages = {})
          => /\ restore'.result = "false"
             /\ ~restore'.ran
             /\ installed' = installed]_vars

\* An empty snapshot was restored, sudo granted or not, on a host that holds
\* driver packages.
RestoreEmptyWitness ==
    /\ restore.calls > 0
    /\ restore.packages = {}
    /\ restore.result = "false"
    /\ installed # {}

\* What the listing holds for a series: the texts its pattern finds.
Entries == {listing[i] : i \in 1..Len(listing)}

Candidates(series) ==
    {V(Last3(e.maj), e.min, e.pat) : e \in {x \in Entries : Matches(series, x)}}

Fetched == versions # NoVersions

\* fetch_versions read the listing: one of the two downloaders delivered it.
Served == ~demo_mode /\ (curl = "ok" \/ wget = "ok")

\* a <= b, the three components compared as integers.
TripleLeq(a, b) ==
    \/ IntOf(a.maj) < IntOf(b.maj)
    \/ /\ IntOf(a.maj) = IntOf(b.maj)
       /\ \/ IntOf(a.min) < IntOf(b.min)
          \/ IntOf(a.min) = IntOf(b.min) /\ IntOf(a.pat) <= IntOf(b.pat)

ExampleListing ==
    << V(<<5, 8, 0>>, <<1, 0>>, <<0>>), V(<<5, 8, 0>>, <<9, 5>>, <<2>>),
       V(<<5, 9, 0>>, <<4, 4>>, <<9>>), V(<<5, 9, 0>>, <<5, 0>>, <<1>>),
       V(<<4, 7, 0>>, <<1, 0>>, <<0>>) >>

\* C7: for any fetched listing, fetch_versions returns for each series a
\* candidate of that series which no other candidate exceeds when the three
\* components are compared as integers; for the listing 580.10.0/, 580.95.2/,
\* 590.44.9/, 590.50.1/, 470.10.0/ it returns production 580.95.2,
\* beta 590.44.9, new_feature 590.50.1 and legacy 470.10.0.
GreatestByIntegerTriple ==
    (Fetched /\ Served) =>
        /\ \A s \in SeriesNames :
              Candidates(s) # {} =>
                  /\ versions[s] \in Candidates(s)
                  /\ \A c \in Candidates(s) : TripleLeq(c, versions[s])
        /\ listing = ExampleListing =>
              versions = [production |-> V(<<5, 8, 0>>, <<9, 5>>, <<2>>),
                          new_feature |-> V(<<5, 9, 0>>, <<5, 0>>, <<1>>),
                          beta |-> V(<<5, 9, 0>>, <<4, 4>>, <<9>>),
                          legacy |-> V(<<4, 7, 0>>, <<1, 0>>, <<0>>)]

\* 580.95.2 and 580.126.09 were both listed and 580.126.09 was returned: the
\* order of the integers and the order of the texts disagree.
GreatestByIntegerTripleWitness ==
    /\ Fetched /\ Served
    /\ V(<<5, 8, 0>>, <<9, 5>>, <<2>>) \in Entries
    /\ V(<<5, 8, 0>>, <<1, 2, 6>>, <<0, 9>>) \in Entries
    /\ versions.production = V(<<5, 8, 0>>, <<1, 2, 6>>, <<0, 9>>)
    /\ versions.new_feature = V(<<5, 9, 0>>, <<5, 0>>, <<1>>)

\* The range the spec gives a series, on the numbers of a listed version.
InSeriesRange(series, e) ==
    CASE series = "production" -> IntOf(e.maj) >= 580 /\ IntOf(e.maj) <= 589
      [] series = "new_feature" -> IntOf(e.maj) = 590 /\ IntOf(e.min) >= 45
      [] series = "beta" -> IntOf(e.maj) = 590 /\ IntOf(e.min) <= 44
      [] OTHER -> IntOf(e.maj) = 470

\* C8: every version string of a listing is a candidate for at most one
\* series, and only for a series whose range it belongs to (production major
\* 580-589, new_feature 590 with minor >= 45, beta 590 with minor 00-44,
\* legacy major 470); so each value fetch_versions takes from the listing is
\* a listed version within the range of the series it is returned for.
CandidatesWithinRange ==
    Fetched =>
        /\ \A e \in Entries :
              /\ Cardinality({s \in SeriesNames : Matches(s, e)}) <= 1
              /\ \A s \in SeriesNames : Matches(s, e) => InSeriesRange(s, e)
        /\ Served =>
              \A s \in SeriesNames :
                  Candidates(s) # {} =>
                      \E e \in Entries : e = versions[s] /\ InSeriesRange(s, e)

\* C9: fetch_versions returns a non-empty version for each of the four
\* series; when no downloader attempt delivers the listing (non-zero exit,
\* timeout or empty output from both), or the listing has no candidate for a
\* series, that series' value is its fallback constant.
FallbackWhenNothingFetched ==
    Fetched =>
        \A s \in SeriesNames :
            /\ versions[s] # EmptyVersion
            /\ (~Served \/ Candidates(s) = {}) => versions[s] = Fallback[s]

\* The listing was read, held a production candidate and no legacy one:
\* production comes from the listing, legacy is the fallback.
FallbackWhenNothingFetchedWitness ==
    /\ Fetched
    /\ ~demo_mode /\ curl = "timeout" /\ wget = "ok"
    /\ Candidates("production") # {} /\ Candidates("legacy") = {}
    /\ versions.production # PRODUCTION_VERSION
    /\ versions.legacy = LEGACY_VERSION

DebianLike == ~demo_mode /\ distro_family = "ubuntu"

\* The series apt-cache show prints a Version line for, as places in Series.
Resolving == {i \in 1..Len(Series) : apt_cache[i] \in {"plain", "epoch"}}

FirstResolving == CHOOSE i \in Resolving : \A j \in Resolving : i <= j

SecondResolving ==
    IF Cardinality(Resolving) >= 2
       THEN CHOOSE i \in Resolving \ {FirstResolving} :
                \A j \in Resolving \ {FirstResolving} : i <= j
       ELSE FirstResolving

\* What is returned for a resolving series: its version where the Version
\* field carries no epoch, else the series number.
ReturnedFor(i) == IF apt_cache[i] = "plain" THEN CacheVersion(i) ELSE <<Series[i]>>

\* C10 as stated: highest_repo_driver_latest returns the version of the
\* first series that resolves, highest_repo_driver the version of the second
\* (the first if exactly one resolves), both "580" when none resolves.
RepoReturnsSeriesVersion ==
    DebianLike =>
        /\ repo_latest # <<>> =>
              repo_latest = IF Resolving = {} THEN <<580>>
                            ELSE CacheVersion(FirstResolving)
        /\ repo_driver # <<>> =>
              repo_driver = IF Resolving = {} THEN <<580>>
                            ELSE CacheVersion(SecondResolving)

\* C10: on the debian-like family highest_repo_driver_latest answers for the
\* first series of [610, 600, 590, 580, 550, 535, 525, 515] that resolves and
\* highest_repo_driver for the second (the first if exactly one resolves);
\* the answer is that series' version when the text after the Version
\* field's first colon has a dot, else the series number; both return "580"
\* when none resolves. With only 600 and 580 resolving with plain versions,
\* the former returns the 600 version and the latter the 580 version.
RepoReturnsVersionOrSeries ==
    DebianLike =>
        /\ repo_latest # <<>> =>
              repo_latest = IF Resolving = {} THEN <<580>>
                            ELSE ReturnedFor(FirstResolving)
        /\ repo_driver # <<>> =>
              repo_driver = IF Resolving = {} THEN <<580>>
                            ELSE ReturnedFor(SecondResolving)
        /\ (repo_latest # <<>> /\ repo_driver # <<>>
            /\ apt_cache = [i \in 1..Len(Series) |->
                               IF Series[i] \in {600, 580} THEN "plain" ELSE "absent"]) =>
              repo_latest = <<600, 95, 5>> /\ repo_driver = <<580, 95, 5>>

\* Only 600 and 580 resolve; both functions answered.
RepoReturnsVersionOrSeriesWitness ==
    /\ DebianLike
    /\ Resolving = {2, 4}
    /\ apt_cache[1] = "virtual"
    /\ repo_latest = <<600, 95, 5>>
    /\ repo_driver = <<580, 95, 5>>

\* C15: when the completion handler of a worker that signaled finished has
\* run, whatever the install type and the finish code (0 or not), the
\* window's cached password is empty.
CredentialClearedOnFinish ==
    [][\A r \in Threads :
          (thread[r].pc = "emitted" /\ thread'[r].pc = "done") => sudo_password' = "none"]_vars

\* A worker finished with a non-zero code, its handler has run, no other
\* worker is active and the password is empty.
CredentialClearedOnFinishWitness ==
    /\ \E r \in Threads : thread[r].pc = "done" /\ thread[r].code = 1
    /\ \A r \in Threads : ~Running(r) /\ thread[r].pc # "emitted"
    /\ sudo_password = "none"

\* C16: whenever no install request is in progress (no worker is active and
\* no finished signal waits for its handler), the cached password is empty.
IdleCredentialEmpty ==
    (\A r \in Threads : ~Running(r) /\ thread[r].pc # "emitted") => sudo_password = "none"

\* C13: on a Linux host run_command returns for every way the command can
\* end: the sentinel (124, "", "Timeout") when the timeout expires, code 1
\* with the error text when the launch raises, and otherwise the command's
\* exit code and captured output; it launches the command exactly once.
RunCommandNeverRaises ==
    (~demo_mode /\ call # NoCall) =>
        /\ child.launched = 1
        /\ call.outcome.kind = "timeout" =>
              returned = [rc |-> 124, out |-> "", err |-> "Timeout"]
        /\ call.outcome.kind = "raise" =>
              returned = [rc |-> 1, out |-> "", err |-> call.outcome.err]
        /\ call.outcome.kind = "exit" =>
              returned = [rc |-> call.outcome.rc, out |-> call.outcome.out,
                          err |-> call.outcome.err]

\* The timeout expired on an elevated command and the sentinel was returned.
RunCommandNeverRaisesWitness ==
    /\ ~demo_mode
    /\ call.sudo /\ call.outcome.kind = "timeout"
    /\ child.launched = 1
    /\ returned.rc = 124 /\ returned.err = "Timeout"

\* C14: on a Linux host the password is given to the child's stdin if and
\* only if the command is run with sudo and a password was supplied, and
\* then sudo is run with -S; a command run without sudo never receives it.
CredentialOnlyToElevated ==
    (~demo_mode /\ call # NoCall) =>
        /\ child.input # "none" <=> (call.sudo /\ call.sudo_password # "none")
        /\ child.input # "none" => (child.input = call.sudo_password /\ child.argv = "sudo -S")
        /\ ~call.sudo => (child.input = "none" /\ child.argv = "plain")

\* A command run without sudo by a caller that holds a password.
CredentialOnlyToElevatedWitness ==
    /\ ~demo_mode
    /\ ~call.sudo /\ call.sudo_password = "pw" /\ call.outcome.kind = "exit"
    /\ child.launched = 1 /\ child.input = "none"

\* Nothing of the driver is on the host.
HostIsClean ==
    /\ installed = {}
    /\ host.units = {} /\ host.enabled = {}
    /\ host.configs = {} /\ host.dkms = {} /\ host.libs = {}

\* C11: the cleanup sequence leaves a host that is already clean unchanged,
\* and a second run in succession leaves the host as the first run left it,
\* from any starting state.
CleanupIdempotent ==
    [][cleanups'.runs = cleanups.runs + 1 =>
          /\ HostIsClean => (host' = host /\ installed' = installed)
          /\ cleanups.runs >= 1 => (host' = host /\ installed' = installed)]_vars

\* Two runs in succession on a host where the first had units, packages and
\* modules to remove and left behind what it cannot reach.
CleanupIdempotentWitness ==
    /\ cleanups.runs = 2
    /\ installed = {}
    /\ host.units = {"nvk-check-reboot"}
    /\ host.dkms = {}
    /\ host.configs = {"/etc/modprobe.d/nvidia-drm.conf"}
    /\ host.pm_ok /\ host.dkms_ok

OneShotUnits == {"nvidia-run-install", "nvk-check-reboot"}

\* C12: after the cleanup completes, neither one-shot unit written by an
\* earlier strategy (nvidia-run-install.service, nvk-check-reboot.service)
\* is enabled or has its unit file present.
NoOneShotUnitAfterCleanup ==
    cleanups.runs >= 1 => (host.units \cup host.enabled) \cap OneShotUnits = {}

\* A run that has emitted finished.
RunFinished == run.finished # <<>>

\* C17: in every run the restart prompt is emitted at most once, only once
\* restart_needed is set, and only in a run that finishes with code 0; a run
\* that finishes with another code has emitted none.
RestartPromptOnlyOnSuccess ==
    /\ Len(run.asked) <= 1
    /\ \A i \in 1..Len(run.asked) : run.asked[i]
    /\ run.asked # <<>> => run.restart_needed /\ run.finished = <<0>>
    /\ RunFinished /\ run.finished # <<0>> => run.asked = <<>>

\* A repository install, with its dependencies installed on the way, that
\* asked for the restart.
RestartPromptOnlyOnSuccessWitness ==
    /\ run.type = "repo"
    /\ run.asked = <<TRUE>>
    /\ run.finished = <<0>>
    /\ \E i \in 1..Len(run.log) : run.log[i].step = "deps"

\* The steps of the commands the run executed, in order.
StepsRun == [i \in 1..Len(run.log) |-> run.log[i].step]

\* An uninstall on a Linux host that has emitted finished.
UninstallFinished == ~demo_mode /\ run.type = "uninstall" /\ RunFinished

\* C18: an uninstall on a Linux host runs the cleanup, the nouveau
\* configuration and the boot image rebuild, in that order, and ends with
\* finished(0), restart_needed set and one restart prompt, whatever codes its
\* commands returned. (The one other end is the uncaught exception, which
\* run() reports as finished(1): writing the nouveau configuration raised.)
UninstallCompletes ==
    UninstallFinished =>
        IF run.raised
        THEN /\ run.finished = <<1>>
             /\ run.asked = <<>>
             /\ StepsRun = SubSeq(Plan("uninstall"), 1, 6)
        ELSE /\ StepsRun = Plan("uninstall")
             /\ run.finished = <<0>>
             /\ run.restart_needed
             /\ run.asked = <<TRUE>>

\* An uninstall all of whose commands returned non-zero and that finished
\* with 0.
UninstallCompletesWitness ==
    /\ UninstallFinished
    /\ run.finished = <<0>>
    /\ Len(run.log) = Len(Plan("uninstall"))
    /\ \A i \in 1..Len(run.log) : run.log[i].rc = 1

\* A repository upgrade on a Linux host that has emitted finished.
UpgradeFinished == ~demo_mode /\ run.type = "upgrade_repo" /\ RunFinished

\* The package name the query of the run returned, "" for none.
FoundPackage == run.log[1].arg

\* The upgrade commands (apt-get install --only-upgrade, dnf upgrade) the run
\* executed.
Upgrades == {i \in 1..Len(run.log) : run.log[i].step = "upgrade"}

\* C19: a repository upgrade that finds no driver package finishes with 0
\* having run only the query, nothing elevated, and asks for no restart. One
\* that finds a package runs the upgrade command against exactly that name
\* and finishes with 0 exactly when that command returns 0, except that on
\* the debian-like family apt-get update runs first and, when it fails, the
\* run finishes with 1 and the upgrade command is not run.
UpgradeNamesFoundPackage ==
    UpgradeFinished =>
        IF FoundPackage = ""
        THEN /\ run.finished = <<0>>
             /\ Len(run.log) = 1
             /\ ~run.log[1].sudo
             /\ run.asked = <<>>
             /\ ~run.restart_needed
        ELSE /\ \A i \in Upgrades : run.log[i].arg = FoundPackage
             /\ Cardinality(Upgrades) <= 1
             /\ run.finished = <<0>> <=> \E i \in Upgrades : run.log[i].rc = 0
             /\ Upgrades = {} <=>
                    /\ distro_family # "fedora"
                    /\ run.log[Len(run.log)].step = "update"
                    /\ run.log[Len(run.log)].rc # 0
             /\ Upgrades = {} => run.finished = <<1>>

\* An upgrade of the 590 package, the only one installed, that succeeded.
UpgradeNamesFoundPackageWitness ==
    /\ UpgradeFinished
    /\ FoundPackage = "nvidia-driver-590-open"
    /\ run.finished = <<0>>
    /\ \E i \in Upgrades : run.log[i].arg = "nvidia-driver-590-open"

\* C19 as stated: whenever a package is found, the upgrade command is run
\* against that name and the finish code is 0 exactly when it returns 0.
UpgradeAlwaysRun ==
    UpgradeFinished /\ FoundPackage # "" =>
        \E i \in Upgrades :
            /\ run.log[i].arg = FoundPackage
            /\ run.finished = <<0>> <=> run.log[i].rc = 0

\* The steps that install what the strategy needs before it starts, and the
\* steps that install the driver packages.
DependencySteps == {"deps", "build_reqs"}

PackageSteps == {"nvk_packages", "install_package"}

FatalSteps == DependencySteps \cup PackageSteps \cup {"download", "update", "upgrade"}

\* The run ended on a failed command or on an exception.
FailedOnCommand ==
    \/ run.raised
    \/ /\ run.log # <<>>
       /\ run.log[Len(run.log)].step \in FatalSteps
       /\ run.log[Len(run.log)].rc # 0

\* A step at a check that only warns goes on to the next step with the same
\* state, the lines it logged apart.
AdvisoryGoesOn ==
    AtStep \in AdvisorySteps =>
        /\ [run' EXCEPT !.log = <<>>, !.warn = <<>>]
               = [AtWork EXCEPT !.pc = @ + 1, !.log = <<>>, !.warn = <<>>]
        /\ StepsRun' = Append(StepsRun, AtStep)
        /\ \/ run'.warn = run.warn
           \/ run'.warn = Append(run.warn, AtStep)

\* C21: a check that only warns (network unreachable, Secure Boot enabled,
\* driver libraries still in the linker cache) never ends a strategy:
\* whatever the check found, the worker goes on to the same next step with
\* the same state, the line it logged apart, and a run that warned and did not
\* finish with 0 failed on a command or an exception, as it would have without
\* the warning.
AdvisoryNeverAborts ==
    /\ [](RunFinished /\ run.warn # <<>> /\ run.finished # <<0>> => FailedOnCommand)
    /\ [][AdvisoryGoesOn]_vars

\* A repository install that warned about the network and about Secure Boot
\* and finished with 0.
AdvisoryNeverAbortsWitness ==
    /\ run.type = "repo"
    /\ run.warn = <<"network", "secure_boot">>
    /\ run.finished = <<0>>

\* The phase of VendorPackage a step belongs to: 1 build dependencies, 2 the
\* installer archive, 3 cleanup, 4 blocking the fallback module, 5 the boot
\* script and the one-shot unit.
Phase(step) ==
    CASE step \in DependencySteps \cup {"deps_check", "build_reqs_check"} -> 1
      [] step \in {"cache", "download"} -> 2
      [] step \in CleanupSteps -> 3
      [] step \in {"block_nouveau", "initramfs", "copy"} -> 4
      [] OTHER -> 5

\* The phases of which the run has executed a step.
PhasesRun == {Phase(run.log[i].step) : i \in 1..Len(run.log)}

\* C22: a vendor package install goes through its phases in the order build
\* dependencies, installer archive, cleanup, fallback module blocked, boot
\* script and one-shot unit; it downloads exactly when the cached installer
\* is absent or too small; and a run whose download failed has finished with
\* a non-zero code with no cleanup command run and no boot script or unit
\* written.
VendorPackagePhases ==
    ~demo_mode /\ run.type = "run" =>
        /\ \A i, j \in 1..Len(run.log) :
               i < j => Phase(run.log[i].step) <= Phase(run.log[j].step)
        /\ \A i \in 1..Len(run.log) :
               /\ run.log[i].step = "download" =>
                      run.log[i - 1].step = "cache" /\ run.log[i - 1].arg = "absent"
               /\ run.log[i].step = "cache" /\ run.log[i].arg = "cached" =>
                      \A j \in 1..Len(run.log) : run.log[j].step # "download"
               /\ run.log[i].step = "download" /\ run.log[i].rc # 0 =>
                      /\ i = Len(run.log)
                      /\ Len(run.finished) = 1
                      /\ run.finished[1] # 0
                      /\ PhasesRun \subseteq {1, 2}
        /\ run.finished = <<0>> => {2, 3, 4, 5} \subseteq PhasesRun

\* A vendor package install whose download failed.
VendorPackagePhasesWitness ==
    /\ run.type = "run"
    /\ run.log # <<>>
    /\ run.log[Len(run.log)].step = "download"
    /\ run.log[Len(run.log)].rc = 1
    /\ run.finished = <<1>>

\* C23: every execution of the boot script has disabled
\* nvidia-run-install.service by the time it exits, on every path, the
\* missing installer included, so that the script runs at most once for each
\* vendor package request however many times the host boots.
ScriptRunsOncePerRequest ==
    /\ boot.execs <= 1
    /\ boot.pc = 0 /\ boot.exits # <<>> => ~boot.enabled

\* The script is past its first phase, which removed the blacklist file.
ScriptPastPrepare == boot.pc > 3

\* The latest execution ended on a failed verification of the module.
VerificationFailed ==
    /\ boot.pc = 0
    /\ boot.exits # <<>>
    /\ boot.exits[Len(boot.exits)] = 1
    /\ boot.archive
    /\ ~boot.verified

\* C30: on both families the boot script writes the blacklist file and
\* regenerates the boot image only once it has found the vendor module for
\* the running kernel, and a script whose verification failed has exited
\* with no blacklist written, no boot image regenerated and no reboot.
BlockedOnlyAfterVerified ==
    /\ ScriptPastPrepare /\ (boot.blacklist \/ boot.initramfs) => boot.verified
    /\ VerificationFailed => ~boot.blacklist /\ ~boot.initramfs /\ ~boot.rebooted

\* The commands by which a package manager installs or removes packages:
\* every installation step, and purge_nvidia_packages.
PackageManagerSteps ==
    DependencySteps \cup PackageSteps \cup {"purge_nvidia_packages", "headers", "upgrade"}

\* C24: on a host of family "other" no dependency-check command is run, and
\* every strategy refuses to run: it finishes with a non-zero code without a
\* package-manager install or remove command.
OtherFamilyFailsClosed ==
    ~demo_mode /\ distro_family = "other" =>
        /\ \A i \in 1..Len(run.log) :
               run.log[i].step \notin PackageManagerSteps \cup {"deps_check", "build_reqs_check"}
        /\ RunFinished => run.finished[1] # 0

\* An exception was raised inside the strategy.
Raised == run.raised

\* C25: an exception raised inside a strategy is caught by the worker; the
\* diagnostic record is collected and, once collected, its saving attempted,
\* and only then finished is emitted, with code 1 and once; finished is
\* always emitted in the end, also when collecting or saving the record
\* itself raised or failed.
ExceptionReportedThenFinished ==
    /\ [](Raised /\ RunFinished =>
              /\ run.finished = <<1>>
              /\ run.report # <<>>
              /\ run.report[1] \in {"collected", "collect_raised"}
              /\ run.report[1] = "collected" =>
                     /\ Len(run.report) = 2
                     /\ run.report[2] \in {"saved", "save_failed", "save_raised"}
              /\ run.asked = <<>>)
    /\ (Raised ~> RunFinished)

\* A run that raised, whose record was collected, whose saving raised, and
\* that has emitted finished(1).
ExceptionReportedThenFinishedWitness ==
    /\ Raised
    /\ run.report = <<"collected", "save_raised">>
    /\ run.finished = <<1>>

\* The callers that have returned.
Returned == {c \in Callers : lookup.callers[c].pc = "done"}

\* C26: on the fedora family the metadata query is executed at most once in
\* the process whatever the callers and their interleaving, and every call
\* returns the same value.
OneQueryPerProcess ==
    /\ lookup.queries <= 1
    /\ \A c, d \in Returned : lookup.callers[c].returned = lookup.callers[d].returned

\* The entries of a file, none for a file that holds no list.
EntriesOf(file) == IF file.kind = "list" THEN file.entries ELSE <<>>

\* C27: after every append_install_history call the file holds the entries
\* it held before, unaltered and in their order, with at most one entry more
\* at the end; a file that could not be read or parsed is left as it was.
HistoryAppendOnly ==
    \/ /\ EntriesOf(history.file) = EntriesOf(history.before)
       /\ history.before.kind = "unreadable" => history.file = history.before
    \/ /\ history.file.kind = "list"
       /\ Len(history.file.entries) = Len(EntriesOf(history.before)) + 1
       /\ SubSeq(history.file.entries, 1, Len(EntriesOf(history.before)))
              = EntriesOf(history.before)
       /\ history.before.kind \in {"absent", "list"}

\* The place of each cleanup step in the one order. clean_nvidia_artifacts
\* deletes the configuration fragments and the one-shot services, so it
\* holds the first two places; remove_nvidia_configs deletes the same
\* fragments once more and holds the second.
CleanupRank(step) ==
    CASE step = "clean_nvidia_artifacts" -> {1, 2}
      [] step = "remove_nvidia_configs" -> {2}
      [] step = "purge_nvidia_packages" -> {3}
      [] step = "remove_dkms_modules" -> {4}
      [] step = "remove_nvidia_libraries" -> {5}
      [] OTHER -> {6}

\* The places in the log of the cleanup steps and of the verification.
CleanupEntries ==
    {i \in 1..Len(run.log) : run.log[i].step \in CleanupSteps \cup {"verify_nvidia_removal"}}

\* The first removal of each kind: a step that only repeats a removal done
\* before it is left out.
FirstRemovals ==
    {i \in CleanupEntries :
        ~ \E h \in CleanupEntries :
              h < i /\ CleanupRank(run.log[i].step) \subseteq CleanupRank(run.log[h].step)}

\* C28: in every strategy that cleans, the cleanup steps run in the one fixed
\* order: services, configuration fragments, packages, kernel modules,
\* libraries, linker cache.
CleanupInFixedOrder ==
    \A i, j \in FirstRemovals :
        i < j => \A a \in CleanupRank(run.log[i].step) :
                     \A b \in CleanupRank(run.log[j].step) : a < b

\* The places in the log of the dependency-ensuring steps.
DependencyEntries ==
    {i \in 1..Len(run.log) :
        run.log[i].step \in DependencySteps \cup {"deps_check", "build_reqs_check"}}

BlockEntries ==
    {i \in 1..Len(run.log) : run.log[i].step \in {"block_nouveau", "initramfs"}}

\* C31: in a repository install the fallback module is blocked and the boot
\* image regenerated only after the package installation returned 0; a run
\* whose package installation failed writes no blacklist file and ends there.
BlockedOnlyAfterInstalled ==
    run.type = "repo" =>
        /\ \A i \in BlockEntries :
               \E k \in 1..(i - 1) :
                   run.log[k].step = "install_package" /\ run.log[k].rc = 0
        /\ \A k \in 1..Len(run.log) :
               run.log[k].step = "install_package" /\ run.log[k].rc # 0 =>
                   /\ BlockEntries = {}
                   /\ k = Len(run.log)
                   /\ run.finished = <<1>>

\* A repository install whose package installation failed, and has finished.
BlockedOnlyAfterInstalledWitness ==
    /\ run.type = "repo"
    /\ run.finished = <<1>>
    /\ run.log # <<>>
    /\ run.log[Len(run.log)].step = "install_package"
    /\ run.log[Len(run.log)].rc = 1

\* C32: the second-boot safety unit of an NVK install is executed at most
\* once and forces at most one reboot, and once it has been executed it is
\* disabled, whether or not a proprietary driver was installed again before
\* the boot.
SafetyUnitRunsOnce ==
    /\ safety.execs <= 1
    /\ safety.forced <= 1
    /\ safety.execs >= 1 /\ safety.pc \in {"off", "down"} => ~safety.enabled

\* The steps that put the boot-time artifacts in place: the installer copied
\* to the path the script names, the script copied and made executable, the
\* unit written and enabled.
ArtifactSteps == {"copy", "install_script", "service"}

\* C34: a vendor package install that reports success has put every
\* boot-time artifact in place: each of its copy and enable commands ran and
\* returned 0.
VendorSuccessNeedsArtifacts ==
    ~demo_mode /\ run.type = "run" /\ run.finished = <<0>> =>
        /\ ArtifactSteps \subseteq {run.log[i].step : i \in 1..Len(run.log)}
        /\ \A i \in 1..Len(run.log) :
               run.log[i].step \in ArtifactSteps => run.log[i].rc = 0

\* Once finished has been emitted the worker emits nothing more.
SilentAfterFinished == RunFinished => run' = run

\* C33: every worker run emits finished exactly once: for each install type
\* and for an unknown one, in demo mode or not, after a success, a failed
\* prerequisite or an exception, the signal is emitted, one time, and nothing
\* is emitted after it.
FinishedExactlyOnce ==
    /\ [](Len(run.finished) <= 1)
    /\ [][SilentAfterFinished]_vars
    /\ (run.pc >= 1 ~> RunFinished)

\* A run of an unknown install type has finished, with code 1.
FinishedExactlyOnceWitness ==
    /\ run.type = "unknown"
    /\ run.finished = <<1>>
    /\ run.log = <<>>

\* C39: within one run the progress values emitted are non-decreasing and
\* lie in 0..100, and 100 is emitted only in a run that ends with
\* finished(0): a run that fails never reports 100.
ProgressMonotone ==
    /\ \A i \in 1..Len(run.progress) : run.progress[i] \in 0..100
    /\ \A i, j \in 1..Len(run.progress) : i < j => run.progress[i] <= run.progress[j]
    /\ (\E i \in 1..Len(run.progress) : run.progress[i] = 100) => run.finished = <<0>>

\* A repository install that reported progress and failed at the package
\* installation.
ProgressMonotoneWitness ==
    /\ run.type = "repo"
    /\ Len(run.progress) >= 3
    /\ run.finished = <<1>>
    /\ ~run.raised

\* C35: a reboot accepted at the restart prompt of a request is run with the
\* credential captured for that request: the finished handler has not
\* cleared it before the reboot command reads it.
RebootHasCredential ==
    \A i \in 1..Len(window.reboots) :
        window.reboots[i].captured = "pw" => window.reboots[i].password = "pw"

\* The requests whose finished handler has run.
Handled == {r \in 1..MaxWindowRequests : window.threads[r].state = "handled"}

\* C36: a request whose worker finished with a non-zero code has no history
\* entry and no completion line at level SUCCESS from its handler; every
\* history entry is of a worker that finished with 0.
NoSuccessTraceOnFailure ==
    /\ \A r \in Handled :
           window.threads[r].code # 0 =>
               /\ r \notin window.success
               /\ \A i \in 1..Len(window.appended) : window.appended[i] # r
    /\ \A i \in 1..Len(window.appended) : window.threads[window.appended[i]].code = 0

\* C37: a close of the window while a worker is running asks for
\* confirmation and is refused unless it is confirmed.
CloseAsksWhileRunning ==
    window.close.called /\ window.close.running =>
        /\ window.close.asked
        /\ window.close.accepted => window.close.confirm

\* The package manager of the host's distribution family.
FamilyTool == IF distro_family = "fedora" THEN "dnf" ELSE "apt-get"

\* C38: restore_backup reinstalls the snapshot's packages with the package
\* manager of the host's family (dnf on a fedora-like host, apt-get on a
\* debian-like one) and returns success exactly when that command returns 0.
RestoreUsesFamilyTool ==
    restore.ran =>
        /\ restore.tool = FamilyTool
        /\ restore.result = "true" <=> restore.rc = 0
====
